---- MODULE Spec2Model ----
(***************************************************************************)
(* A model of spread2json (src/src/index.ts): the grid folder _format, the *)
(* cross-sheet linker _findOrigin / toJson, the flattener toCells, the     *)
(* sheet splitter, the schema convertor and the concurrent sheet fetch.    *)
(*                                                                         *)
(* JavaScript strings are TLA+ strings, taken apart character by character *)
(* with SubSeq, so that every regular expression of the source is modelled *)
(* by what it matches.  The strings of the model are written over the      *)
(* alphabet: letters, digits, '_', '.', '#', '$', ':' and ','.             *)
(*                                                                         *)
(* A JavaScript value is a record tagged by its only field:                *)
(*   [u |-> TRUE] undefined (also a hole of a sparse array)                *)
(*   [s |-> "x"]  string        [n |-> 1] number      [nan |-> TRUE] NaN   *)
(*   [b |-> TRUE] boolean                                                  *)
(*   [o |-> f]    object, f a function from its own keys to values         *)
(*   [a |-> q]    array, q the sequence of its elements (index 0 is q[1]); *)
(*                an array that was given properties that are not indexes  *)
(*                has them in a second field, [a |-> q, p |-> f]           *)
(*                                                                         *)
(* Objects hold their own properties only: the keys of the model are never *)
(* names inherited from Object.prototype, nor 'length'.  The records of    *)
(* distinct sheets are distinct objects, as _format makes them, so a value *)
(* is never reached by two paths of the collection map and assignment by   *)
(* reference is modelled by functional update along the path.              *)
(***************************************************************************)
EXTENDS Integers, Sequences, FiniteSets, TLC

VARIABLES
  sheet,       \* _format: every cell of the sheet the argument is taken from
  pos,         \* _format: place in sheet of the cell the forEach visited last
  cells,       \* _format: the cells of the argument visited so far
  beforeRow,   \* _format: row of the previous cell (0: undefined)
  idx,         \* _format: the index counters
  list,        \* _format: the records folded so far
  opts,        \* _format: the sheet options
  fpc,         \* _format: "run", "done" (returned) or "thrown"
  sheetDatas,  \* toJson: the sheets visited so far, each with the records visited
  sheetData,   \* toJson: the sheet the outer forEach is on
  collectionMap, \* toJson: collection name -> composite key -> record
  optionMap,   \* toJson: collection name -> options
  errors,      \* toJson: collection name -> the records that failed to link
  jpc,         \* toJson: "idle", "run", "done" (callback called) or "thrown"
  jret,        \* toJson: the arguments the callback was called with
  rows,        \* export and import: the records exported
  schemaFormat, \* export and import: the columns convertSchema2Format returned
  sheetDataList, \* export and import: the sheets splitSheetData returned
  cellDataList, \* export and import: what toCells returned for each sheet
  formatDataList, \* export and import: what _format returned for each sheet
  roundResult, \* export and import: the arguments of the callback of toJson
  rpc,         \* export and import: "idle", the last call done, or "thrown"
  worksheetNames, \* getWorksheetDatas: the layouts of the sheets asked for
  tasks,       \* getWorksheetDatas: "pending", "resolved" or "rejected", by sheet
  results,     \* getWorksheetDatas: what the task of each sheet returned
  errList,     \* getWorksheetDatas: the sheets that failed to fold (<<>>: undefined)
  gpc,         \* getWorksheetDatas: "idle", "wait", or "done" (callback called)
  gret,        \* getWorksheetDatas: the arguments the callback was called with
  ptype,       \* _parser: the name of the parser called
  parg,        \* _parser: the argument d
  pret,        \* _parser: the value returned
  ppc,         \* _parser: "idle", "call" or "done"
  sschema,     \* schema export: the schema given to convertSchema2Format
  srefs,       \* schema export: the ref keys
  sformat,     \* schema export: the columns convertSchema2Format returned
  ssheets,     \* schema export: the sheets splitSheetData returned
  spc          \* schema export: "idle", "start", "format", "split" or "thrown"

fvars == <<sheet, pos, cells, beforeRow, idx, list, opts, fpc>>
jvars == <<sheetDatas, sheetData, collectionMap, optionMap, errors, jpc, jret>>
rvars == <<rows, schemaFormat, sheetDataList, cellDataList, formatDataList, roundResult, rpc>>
gvars == <<worksheetNames, tasks, results, errList, gpc, gret>>
pvars == <<ptype, parg, pret, ppc>>
svars == <<sschema, srefs, sformat, ssheets, spc>>
vars == <<fvars, jvars, rvars, gvars, pvars, svars>>

-----------------------------------------------------------------------------
(* Strings *)

Ch(s, i) == SubSeq(s, i, i)

Upper == "ABCDEFGHIJKLMNOPQRSTUVWXYZ"
Lower == "abcdefghijklmnopqrstuvwxyz"
DigitChars == {"0", "1", "2", "3", "4", "5", "6", "7", "8", "9"}
LetterChars == {Ch(Upper, i) : i \in 1..26} \cup {Ch(Lower, i) : i \in 1..26}

\* the class \w of a regular expression
WordChars == LetterChars \cup DigitChars \cup {"_"}

IsWord(s) == \A i \in 1..Len(s) : Ch(s, i) \in WordChars
IsDigits(s) == \A i \in 1..Len(s) : Ch(s, i) \in DigitChars

\* String.prototype.toLowerCase
LowerCh(c) ==
  IF \E i \in 1..26 : Ch(Upper, i) = c
  THEN Ch(Lower, CHOOSE i \in 1..26 : Ch(Upper, i) = c)
  ELSE c

RECURSIVE toLowerCase(_)
toLowerCase(s) ==
  IF s = "" THEN "" ELSE LowerCh(Ch(s, 1)) \o toLowerCase(SubSeq(s, 2, Len(s)))

\* position of the first / last occurrence of character c in s, 0 when absent
IndexOf(s, c) ==
  IF \E i \in 1..Len(s) : Ch(s, i) = c
  THEN CHOOSE i \in 1..Len(s) : Ch(s, i) = c /\ \A j \in 1..(i - 1) : Ch(s, j) # c
  ELSE 0

LastIndexOf(s, c) ==
  IF \E i \in 1..Len(s) : Ch(s, i) = c
  THEN CHOOSE i \in 1..Len(s) : Ch(s, i) = c /\ \A j \in (i + 1)..Len(s) : Ch(s, j) # c
  ELSE 0

\* String.prototype.split(c) for a one-character separator
RECURSIVE split(_, _)
split(s, c) ==
  LET i == IndexOf(s, c) IN
  IF i = 0 THEN <<s>>
  ELSE <<SubSeq(s, 1, i - 1)>> \o split(SubSeq(s, i + 1, Len(s)), c)

\* Array.prototype.join(c) of an array of strings
RECURSIVE join(_, _)
join(q, c) ==
  IF q = <<>> THEN ""
  ELSE IF Len(q) = 1 THEN q[1]
  ELSE q[1] \o c \o join(Tail(q), c)

StartsWith(s, p) == Len(s) >= Len(p) /\ SubSeq(s, 1, Len(p)) = p

DigitVal(c) == CHOOSE n \in 0..9 : ToString(n) = c

\* the value of a string of decimal digits
RECURSIVE StrToNat(_)
StrToNat(s) ==
  IF s = "" THEN 0
  ELSE 10 * StrToNat(SubSeq(s, 1, Len(s) - 1)) + DigitVal(Ch(s, Len(s)))

\* the longest prefix of s made of digits
RECURSIVE DigitPrefix(_)
DigitPrefix(s) ==
  IF s = "" \/ Ch(s, 1) \notin DigitChars THEN ""
  ELSE Ch(s, 1) \o DigitPrefix(SubSeq(s, 2, Len(s)))

-----------------------------------------------------------------------------
(* JavaScript values *)

Undef == [u |-> TRUE]
NaN == [nan |-> TRUE]
Str(s) == [s |-> s]
Num(n) == [n |-> n]
Bool(b) == [b |-> b]
Obj(f) == [o |-> f]
Arr(q) == [a |-> q]
EmptyObj == Obj(<<>>)
EmptyArr == Arr(<<>>)

IsUndef(v) == DOMAIN v = {"u"}
IsNaN(v) == DOMAIN v = {"nan"}
IsStr(v) == DOMAIN v = {"s"}
IsNum(v) == DOMAIN v = {"n"}
IsBool(v) == DOMAIN v = {"b"}
IsObj(v) == DOMAIN v = {"o"}
IsArr(v) == "a" \in DOMAIN v
IsPrimitive(v) == ~(IsObj(v) \/ IsArr(v))

\* ToBoolean: what `if (v)` and `v || d` test
Truthy(v) ==
  CASE IsUndef(v) -> FALSE
    [] IsNaN(v) -> FALSE
    [] IsStr(v) -> v.s # ""
    [] IsNum(v) -> v.n # 0
    [] IsBool(v) -> v.b
    [] OTHER -> TRUE

\* a || d
OrElse(v, d) == IF Truthy(v) THEN v ELSE d

\* obj[k] on an object: an own property or undefined
GetProp(v, k) == IF k \in DOMAIN v.o THEN v.o[k] ELSE Undef

\* obj[k] = x
SetProp(v, k, x) == Obj((k :> x) @@ v.o)

\* delete obj[k]
DelProp(v, k) == Obj([j \in (DOMAIN v.o) \ {k} |-> v.o[j]])

\* arr[n], n counted from 0
ArrGet(v, n) == IF n < Len(v.a) THEN v.a[n + 1] ELSE Undef

\* arr[n] = x: writing past the end leaves holes
ArrSet(v, n, x) ==
  LET m == IF n + 1 > Len(v.a) THEN n + 1 ELSE Len(v.a) IN
  [v EXCEPT !.a = [i \in 1..m |-> IF i = n + 1 THEN x
                                   ELSE IF i <= Len(v.a) THEN v.a[i] ELSE Undef]]

\* an element put in front of the others
ArrUnshift(v, x) == [v EXCEPT !.a = <<x>> \o @]

\* arr.push(x)
ArrPush(v, x) == [v EXCEPT !.a = Append(@, x)]

\* a property name that is an array index: "0", "1", ... but not "00"
IsIndexName(k) == k # "" /\ IsDigits(k) /\ (k = "0" \/ Ch(k, 1) # "0")

\* v[k] for any value and property name k
GetP(v, k) ==
  CASE IsObj(v) -> GetProp(v, k)
    [] IsArr(v) -> IF IsIndexName(k) THEN ArrGet(v, StrToNat(k))
                   ELSE IF k = "length" THEN Num(Len(v.a))
                   ELSE IF "p" \in DOMAIN v /\ k \in DOMAIN v.p THEN v.p[k]
                   ELSE Undef
    [] IsStr(v) -> IF IsIndexName(k) /\ StrToNat(k) < Len(v.s)
                   THEN Str(Ch(v.s, StrToNat(k) + 1)) ELSE Undef
    [] OTHER -> Undef

\* v[k] = x for an object or an array v
SetP(v, k, x) ==
  IF IsObj(v) THEN SetProp(v, k, x)
  ELSE IF IsIndexName(k) THEN ArrSet(v, StrToNat(k), x)
  ELSE [a |-> v.a, p |-> (k :> x) @@ (IF "p" \in DOMAIN v THEN v.p ELSE <<>>)]

\* the value a path of property names leads to, and the value with that
\* place replaced: how a reference into a structure is read and written
RECURSIVE GetAt(_, _)
GetAt(v, path) == IF path = <<>> THEN v ELSE GetAt(GetP(v, Head(path)), Tail(path))

RECURSIVE SetAt(_, _, _)
SetAt(v, path, x) ==
  IF path = <<>> THEN x
  ELSE SetP(v, Head(path), SetAt(GetP(v, Head(path)), Tail(path), x))

\* String(v), as string concatenation and property access apply it
RECURSIVE ToStr(_)
ToStr(v) ==
  CASE IsStr(v) -> v.s
    [] IsNum(v) -> ToString(v.n)
    [] IsNaN(v) -> "NaN"
    [] IsUndef(v) -> "undefined"
    [] IsBool(v) -> IF v.b THEN "true" ELSE "false"
    [] IsObj(v) -> "[object Object]"
    [] OTHER -> join([i \in 1..Len(v.a) |->
                       IF IsUndef(v.a[i]) THEN "" ELSE ToStr(v.a[i])], ",")

-----------------------------------------------------------------------------
(* Type coercion registry: _parser *)

\* Number(d) of a string: "" is 0, a digit string is its value, any other
\* string of the model's alphabet (one holding a letter or a mark) is NaN
Number(v) ==
  IF IsStr(v)
  THEN IF IsDigits(v.s) THEN Num(StrToNat(v.s)) ELSE NaN
  ELSE IF IsBool(v) THEN Num(IF v.b THEN 1 ELSE 0)
  ELSE IF IsNum(v) THEN v
  ELSE NaN

\* parseInt(s, 10): the leading digits, NaN when there is none
parseInt(s) == IF DigitPrefix(s) = "" THEN NaN ELSE Num(StrToNat(DigitPrefix(s)))

\* !!d alone
ParserTruthy(v) == Bool(Truthy(v))

ParserBoolean(v) ==
  IF IsBool(v) THEN v
  ELSE IF IsStr(v) THEN Bool(toLowerCase(v.s) # "false" /\ v.s # "0")
  ELSE Bool(Truthy(v))

ParserNames == {"string", "number", "num", "boolean", "bool", "auto"}

\* this._parser[type](d); the date parser is outside the model: no column
\* of the model is typed date
Parser(type, v) ==
  CASE type = "string" -> Str(ToStr(v))
    [] type \in {"number", "num"} -> Number(v)
    [] type \in {"boolean", "bool"} -> ParserBoolean(v)
    [] type = "auto" -> IF IsNaN(Number(v)) THEN v ELSE Number(v)
    [] OTHER -> v

RECURSIVE MapParser(_, _)
MapParser(type, q) ==
  IF q = <<>> THEN <<>> ELSE <<Parser(type, Str(q[1]))>> \o MapParser(type, Tail(q))

\* a final segment that stores the cell value as it is, whatever the type
CoerceCellNoParse(type, isSplitArray, value) ==
  IF isSplitArray
  THEN Arr([i \in 1..Len(split(value.s, ",")) |-> Str(split(value.s, ",")[i])])
  ELSE value

\* the value the final segment stores, lines 678-683; value is cell.value, a
\* string when the cell comes from a sheet; the cell of a split array is
\* always a string
CoerceCell(type, isSplitArray, value) ==
  IF type \in ParserNames
  THEN IF isSplitArray THEN Arr(MapParser(type, split(value.s, ",")))
       ELSE Parser(type, value)
  ELSE IF isSplitArray
       THEN Arr([i \in 1..Len(split(value.s, ",")) |-> Str(split(value.s, ",")[i])])
       ELSE value

-----------------------------------------------------------------------------
(* Module defaults: this.opts, lines 108-131 *)

option_cell == "A1"
attr_line == 2
desc_line == 3
data_line == 4
ref_keys == <<"_id">>

\* COLUMN_KEYMAP[j - 1] for the first 26 columns
COLUMN_KEYMAP(j) == Ch(Upper, j)

\* an optional string field of a plain options object; "" stands for a
\* missing (undefined) field, which the code only ever tests for truth
OptStr(o, k) == IF k \in DOMAIN o THEN o[k] ELSE ""

-----------------------------------------------------------------------------
(* JSON.parse and JSON.stringify, on the option texts of the model *)

OptEmpty == "{}"
OptName == "{\"name\":\"Test\"}"
OptArray == "{\"name\":\"Test\",\"type\":\"array\",\"key\":\"list\"}"
OptLegacy == "{\"ref_key\":\"code\",\"data_line\":5}"
OptOrigin == "{\"type\":\"origin\",\"ref_keys\":[\"_id\",\"sub\"]}"
OptBad == "{name: 'Test'}"
OptMap == "{\"name\":\"Test\",\"type\":\"map\",\"key\":\"map\"}"
OptNested == "{\"name\":\"Test\",\"type\":\"array\",\"key\":\"#list.sub\"}"
OptUnknown == "{\"name\":\"Test\",\"type\":\"object\",\"key\":\"x\"}"

OptPrimary ==
  "{\"name\":\"Test1\",\"ref_keys\":[\"_id\"],\"attr_line\":2,\"desc_line\":3,\"data_line\":4}"
OptList ==
  "{\"type\":\"array\",\"key\":\"list\",\"name\":\"Test1\",\"ref_keys\":[\"_id\"],\"attr_line\":2,\"desc_line\":3,\"data_line\":4}"

\* the JSON texts of the model and the objects they stand for
JsonTable ==
  <<[s |-> OptEmpty, v |-> <<>>],
    [s |-> OptName, v |-> [name |-> "Test"]],
    [s |-> OptArray, v |-> [name |-> "Test", type |-> "array", key |-> "list"]],
    [s |-> OptLegacy, v |-> [ref_key |-> "code", data_line |-> 5]],
    [s |-> OptOrigin, v |-> [type |-> "origin", ref_keys |-> <<"_id", "sub">>]],
    [s |-> OptMap, v |-> [name |-> "Test", type |-> "map", key |-> "map"]],
    [s |-> OptNested, v |-> [name |-> "Test", type |-> "array", key |-> "#list.sub"]],
    [s |-> OptUnknown, v |-> [name |-> "Test", type |-> "object", key |-> "x"]],
    [s |-> OptPrimary,
     v |-> [name |-> "Test1", ref_keys |-> <<"_id">>,
            attr_line |-> 2, desc_line |-> 3, data_line |-> 4]],
    [s |-> OptList,
     v |-> [type |-> "array", key |-> "list", name |-> "Test1", ref_keys |-> <<"_id">>,
            attr_line |-> 2, desc_line |-> 3, data_line |-> 4]]>>

\* JSON.parse; [ok |-> FALSE] is a SyntaxError
JSONparse(s) ==
  IF \E i \in 1..Len(JsonTable) : JsonTable[i].s = s
  THEN [ok |-> TRUE, v |-> JsonTable[CHOOSE i \in 1..Len(JsonTable) : JsonTable[i].s = s].v]
  ELSE [ok |-> FALSE, v |-> <<>>]

\* JSON.stringify of an object of the table
JSONstringify(v) == JsonTable[CHOOSE i \in 1..Len(JsonTable) : JsonTable[i].v = v].s

-----------------------------------------------------------------------------
(* Attribute parser: lines 588-598 *)

\* cell.value.match(/:(\w+)$/): the text after the last ':' when it is a
\* non-empty run of word characters, "" when the expression does not match
TypeSuffix(s) ==
  LET i == LastIndexOf(s, ":") IN
  IF i > 0 /\ i < Len(s) /\ IsWord(SubSeq(s, i + 1, Len(s)))
  THEN SubSeq(s, i + 1, Len(s)) ELSE ""

\* cell.value.replace(/:\w+$/, '')
StripType(s) ==
  IF TypeSuffix(s) = "" THEN s ELSE SubSeq(s, 1, LastIndexOf(s, ":") - 1)

ParseAttr(s) ==
  [type |-> toLowerCase(TypeSuffix(s)),
   key |-> StripType(s),
   keys |-> split(StripType(s), ".")]

\* /^#/.test(k), /^\$/.test(k) and k.replace(/^#/, ''), k.replace(/^\$/, '')
IsArrayKey(k) == StartsWith(k, "#")
IsSplitKey(k) == StartsWith(k, "$")
StripMark(k) == IF IsArrayKey(k) \/ IsSplitKey(k) THEN SubSeq(k, 2, Len(k)) ELSE k

\* format.keys.slice(0, i).join('.')
PrefixKey(keys, i) == join(SubSeq(keys, 1, i), ".")

\* new RegExp(`^${p}.+$`).test(s) for a pattern p over the model's alphabet:
\* '.' matches any character, '$' in the middle can never match, every
\* other character matches itself, and at least one character must follow
RegExpPrefixTest(p, s) ==
  /\ Len(s) > Len(p)
  /\ \A i \in 1..Len(p) :
       \/ Ch(p, i) = "."
       \/ Ch(p, i) # "$" /\ Ch(p, i) = Ch(s, i)

-----------------------------------------------------------------------------
(* Grid folder: _format, lines 558-691 *)

\* the cells of one sheet, lines 833-851: row-major, empty strings left out
RECURSIVE RowCells(_, _, _)
RowCells(columns, i, j) ==
  IF j > Len(columns) THEN <<>>
  ELSE (IF columns[j] = "" THEN <<>>
        ELSE <<[cell |-> COLUMN_KEYMAP(j) \o ToString(i), column |-> COLUMN_KEYMAP(j),
                row |-> i, value |-> Str(columns[j])]>>)
       \o RowCells(columns, i, j + 1)

RECURSIVE SheetCells(_, _)
SheetCells(vals, i) ==
  IF i > Len(vals) THEN <<>> ELSE RowCells(vals[i], i, 1) \o SheetCells(vals, i + 1)

\* the local state of _format before the first cell, lines 559-567
FormatStart ==
  [opts |-> [attr_line |-> attr_line, data_line |-> data_line,
             ref_keys |-> ref_keys, format |-> <<>>],
   beforeRow |-> 0, idx |-> <<>>, list |-> <<>>, thrown |-> FALSE]

\* a change of row that advances no counter
IncrementNone(ix) == ix

\* lines 570-577: on a change of row every counter not set by an index column advances
\* every counter advanced, those set by an index column too
IncrementAll(ix) == [k \in DOMAIN ix |-> [ix[k] EXCEPT !.value = @ + 1]]

IncrementCounters(ix) ==
  [k \in DOMAIN ix |->
     IF ix[k].type # "format" THEN [ix[k] EXCEPT !.value = @ + 1] ELSE ix[k]]

\* lines 579-584: the parsed option cell with a legacy ref_key normalised
NormaliseRefKey(v) ==
  IF "ref_key" \in DOMAIN v /\ v.ref_key # "" /\ "ref_keys" \notin DOMAIN v
  THEN ("ref_keys" :> <<v.ref_key>>) @@ [k \in (DOMAIN v) \ {"ref_key"} |-> v[k]]
  ELSE v

\* an index cell that zeroes only the counters of key followed by '.'
IndexCellDotted(ix, key, n) ==
  IF key \notin DOMAIN ix \/ ix[key].value # n
  THEN LET ix1 == (key :> [type |-> "format", value |-> n]) @@ ix IN
       [k \in DOMAIN ix1 |->
          IF Len(k) > Len(key) + 1 /\ SubSeq(k, 1, Len(key) + 1) = key \o "."
          THEN [ix1[k] EXCEPT !.value = 0] ELSE ix1[k]]
  ELSE ix

\* lines 606-618: an index cell sets its counter and zeroes the counters its key matches
IndexCell(ix, key, n) ==
  IF key \notin DOMAIN ix \/ ix[key].value # n
  THEN LET ix1 == (key :> [type |-> "format", value |-> n]) @@ ix IN
       [k \in DOMAIN ix1 |->
          IF RegExpPrefixTest(key, k) THEN [ix1[k] EXCEPT !.value = 0] ELSE ix1[k]]
  ELSE ix

\* lines 621-622: the cell starts a new record
IsRecordStart(o, key) ==
  \/ /\ OptStr(o, "type") \in {"", "origin"}
     /\ o.ref_keys # <<>>
     /\ key = o.ref_keys[1]
  \/ key = "__ref"
  \/ key = "__ref_0"

\* lines 643-650 and 662-669: the counter of an array segment, made on first use
Counter(ix, ck, arr) ==
  IF ck \in DOMAIN ix THEN ix
  ELSE (ck :> [type |-> "normal",
               value |-> IF Len(arr.a) # 0 THEN Len(arr.a) - 1 ELSE 0]) @@ ix

\* lines 628-684: the walk of format.keys from segment i on, inside data;
\* the result is data after the walk and the counters after it
RECURSIVE WalkKeys(_, _, _, _, _)
WalkKeys(data, format, i, ix, value) ==
  LET isArray == IsArrayKey(format.keys[i])
      isSplitArray == IsSplitKey(format.keys[i])
      _key == StripMark(format.keys[i])
      data1 == IF isArray THEN SetProp(data, _key, OrElse(GetProp(data, _key), EmptyArr))
               ELSE data
      ix1 == IF isArray THEN Counter(ix, PrefixKey(format.keys, i), GetProp(data1, _key))
             ELSE ix
      n == ix1[PrefixKey(format.keys, i)].value
  IN
  IF i # Len(format.keys)
  THEN IF isArray
       THEN LET r == WalkKeys(OrElse(ArrGet(GetProp(data1, _key), n), EmptyObj),
                              format, i + 1, ix1, value) IN
            [d |-> SetProp(data1, _key, ArrSet(GetProp(data1, _key), n, r.d)),
             idx |-> r.idx]
       ELSE LET r == WalkKeys(OrElse(GetProp(data1, _key), EmptyObj),
                              format, i + 1, ix1, value) IN
            [d |-> SetProp(data1, _key, r.d), idx |-> r.idx]
  ELSE IF isArray
       THEN IF Truthy(ArrGet(GetProp(data1, _key), n))
            THEN [d |-> data1, idx |-> ix1]
            ELSE [d |-> SetProp(data1, _key,
                          ArrSet(GetProp(data1, _key), n,
                                 CoerceCell(format.type, isSplitArray, value))),
                  idx |-> ix1]
       ELSE IF Truthy(GetProp(data1, _key))
            THEN [d |-> data1, idx |-> ix1]
            ELSE [d |-> SetProp(data1, _key, CoerceCell(format.type, isSplitArray, value)),
                  idx |-> ix1]

\* a record started with the counters left as they were
DataCellCounting(st, format, cell) ==
  LET start == IsRecordStart(st.opts, format.key)
      lst == IF start THEN Append(st.list, EmptyObj) ELSE st.list
  IN
  IF lst = <<>>
  THEN [st EXCEPT !.thrown = TRUE]
  ELSE LET r == WalkKeys(lst[Len(lst)], format, 1, st.idx, cell.value) IN
       [st EXCEPT !.idx = r.idx, !.list = [lst EXCEPT ![Len(lst)] = r.d]]

\* lines 621-684: a data cell of an attributed, non-index column
DataCell(st, format, cell) ==
  LET start == IsRecordStart(st.opts, format.key)
      ix == IF start THEN <<>> ELSE st.idx
      lst == IF start THEN Append(st.list, EmptyObj) ELSE st.list
  IN
  IF lst = <<>>
  THEN \* _.last(list) is undefined: data[_key] raises a TypeError
       [st EXCEPT !.thrown = TRUE]
  ELSE LET r == WalkKeys(lst[Len(lst)], format, 1, ix, cell.value) IN
       [st EXCEPT !.idx = r.idx, !.list = [lst EXCEPT ![Len(lst)] = r.d]]

\* lines 569-685: the body of the forEach for one cell
FormatCell(st0, cell) ==
  LET st == IF st0.beforeRow # cell.row
            THEN [st0 EXCEPT !.idx = IncrementCounters(st0.idx), !.beforeRow = cell.row]
            ELSE st0
  IN
  IF cell.cell = option_cell
  THEN IF JSONparse(ToStr(cell.value)).ok
       THEN [st EXCEPT !.opts = NormaliseRefKey(JSONparse(ToStr(cell.value)).v) @@ st.opts]
       ELSE [st EXCEPT !.thrown = TRUE]
  ELSE IF cell.row = st.opts.attr_line
  THEN [st EXCEPT !.opts = [st.opts EXCEPT
          !.format = (cell.column :> ParseAttr(cell.value.s)) @@ st.opts.format]]
  ELSE IF cell.row < st.opts.data_line \/ cell.column \notin DOMAIN st.opts.format
  THEN st
  ELSE IF st.opts.format[cell.column].type = "index"
  THEN [st EXCEPT !.idx = IndexCell(st.idx, st.opts.format[cell.column].key,
                                     parseInt(ToStr(cell.value)).n)]
  ELSE DataCell(st, st.opts.format[cell.column], cell)

\* _format(cells): every cell in order, stopping at the first exception
RECURSIVE FoldCells(_, _, _)
FoldCells(st, cs, i) ==
  IF i > Len(cs) \/ st.thrown THEN st ELSE FoldCells(FormatCell(st, cs[i]), cs, i + 1)

_format(cs) == FoldCells(FormatStart, cs, 1)

-----------------------------------------------------------------------------
(* The sheets _format is run on *)

\* number of data rows of a sheet
MaxDataRows == 3

Col(attr, desc, vals) == [attr |-> attr, desc |-> desc, vals |-> vals]

\* the README sheet
LReadme ==
  [name |-> "Readme", opt |-> OptEmpty,
   cols |-> <<Col("_id", "", <<"first", "second">>),
              Col("obj.code", "", <<"one", "two">>),
              Col("obj.value:number", "", <<"1", "2">>)>>]

\* an array of scalars and an array of objects, two columns on the same array
LArr ==
  [name |-> "Arr", opt |-> OptName,
   cols |-> <<Col("_id", "ID", <<"first", "second", "third">>),
              Col("#arr", "", <<"array1", "array2", "array3">>),
              Col("#list.code", "code", <<"c1", "c2", "c3">>),
              Col("#list.value:num", "", <<"7", "8", "9">>)>>]

\* an array nested in an array
LNest ==
  [name |-> "Nest", opt |-> OptEmpty,
   cols |-> <<Col("_id", "", <<"first", "second">>),
              Col("#list.code", "", <<"c1", "c2", "c3">>),
              Col("#list.#sub.x:Number", "", <<"1", "2", "3">>)>>]

\* an index column pinning the slot of an array
LIndex ==
  [name |-> "Index", opt |-> OptEmpty,
   cols |-> <<Col("_id", "", <<"first", "second", "third">>),
              Col("#list:index", "", <<"0", "0", "1">>),
              Col("#list.code", "", <<"c1", "c2", "c3">>),
              Col("#list.#sub.x", "", <<"x1", "x2", "x3">>)>>]

\* a secondary sheet
LSecondary ==
  [name |-> "Sheet1.list", opt |-> OptArray,
   cols |-> <<Col("__ref_0", "", <<"first", "second", "first">>),
              Col("code", "", <<"c1", "c2", "c3">>),
              Col("$arr:number", "", <<"1,2", "3">>)>>]

\* two columns on one leaf, and values that coerce to a falsy value
LDup ==
  [name |-> "Dup", opt |-> OptEmpty,
   cols |-> <<Col("_id", "", <<"first", "second">>),
              Col("n:number", "", <<"0", "1">>),
              Col("n", "", <<"x", "y">>)>>]

\* a malformed option cell
LBad ==
  [name |-> "Bad", opt |-> OptBad,
   cols |-> <<Col("_id", "", <<"first", "second">>),
              Col("obj.code", "", <<"one", "two">>)>>]

\* the ref-key column is not the first column, and there is no option cell
LOrder ==
  [name |-> "Order", opt |-> "",
   cols |-> <<Col("obj.code", "", <<"one", "two">>),
              Col("_id", "", <<"first", "second">>),
              Col("", "", <<"note">>)>>]

\* a legacy ref_key, a later data line, auto and boolean columns
LLegacy ==
  [name |-> "Legacy", opt |-> OptLegacy,
   cols |-> <<Col("code", "", <<"k1", "k2", "k3">>),
              Col("v:auto", "", <<"x", "7">>),
              Col("flag:Bool", "", <<"FALSE", "yes", "0">>)>>]

\* an origin sheet with two ref keys that also carries a link column
LOrigin ==
  [name |-> "Origin", opt |-> OptOrigin,
   cols |-> <<Col("_id", "", <<"first", "second">>),
              Col("sub", "", <<"a", "b">>),
              Col("__ref", "", <<"r1", "r2">>)>>]

\* the primary sheet of collection Test; in its second record the fields the
\* secondary sheets link into hold text
LTest ==
  [name |-> "Sheet1", opt |-> OptName,
   cols |-> <<Col("_id", "", <<"first", "second">>),
              Col("obj.code", "", <<"one", "two", "three">>),
              Col("obj.value:number", "", <<"1", "2">>),
              Col("list", "", <<"", "x">>),
              Col("map", "", <<"", "x">>)>>]

\* a secondary sheet of type map; its first record has no __key
LMap ==
  [name |-> "Sheet1.map", opt |-> OptMap,
   cols |-> <<Col("__ref_0", "", <<"first", "first", "second">>),
              Col("__key", "", <<"", "k1", "k2">>),
              Col("v:number", "", <<"1", "2", "3">>)>>]

\* a second sheet of type map for the same field: its record has the __key
\* of a record of the first
LMapAgain ==
  [name |-> "Sheet2.map", opt |-> OptMap,
   cols |-> <<Col("__ref_0", "", <<"first">>),
              Col("__key", "", <<"k1">>),
              Col("w", "", <<"9">>)>>]

\* a secondary sheet that links under an element of an array
LNested ==
  [name |-> "Sheet1.sub", opt |-> OptNested,
   cols |-> <<Col("__ref_0", "", <<"first">>),
              Col("__in", "", <<"#list:0", "", "list">>),
              Col("code", "", <<"n1", "n2", "n3">>)>>]

\* a secondary sheet of a type that is neither array nor map
LUnknown ==
  [name |-> "Sheet1.x", opt |-> OptUnknown,
   cols |-> <<Col("__ref_0", "", <<"first">>),
              Col("v", "", <<"1", "2">>)>>]

\* a primary sheet with two ref keys, filed under its own name
LComposite ==
  [name |-> "Other", opt |-> OptOrigin,
   cols |-> <<Col("_id", "", <<"a.b", "a">>),
              Col("sub", "", <<"c", "b.c">>),
              Col("v:number", "", <<"1", "2", "3">>)>>]

Layouts == {LReadme, LArr, LNest, LIndex, LSecondary, LDup, LBad, LOrder, LLegacy, LOrigin}

\* the value of column j on data row r
CycleVal(vals, r) == vals[((r - data_line) % Len(vals)) + 1]

\* result.values of the full sheet of a layout: the option cell, the
\* attribute row, the description row and MaxDataRows rows of data
SheetValues(L) ==
  [i \in 1..(data_line + MaxDataRows - 1) |->
     [j \in 1..Len(L.cols) |->
        IF i = 1 THEN (IF j = 1 THEN L.opt ELSE "")
        ELSE IF i = attr_line THEN L.cols[j].attr
        ELSE IF i = desc_line THEN L.cols[j].desc
        ELSE CycleVal(L.cols[j].vals, i)]]

\* a cell of the sheet that may be empty, and so missing from the cell list
MayBeEmpty(cell) == cell.row >= data_line

-----------------------------------------------------------------------------
(* _format, one forEach iteration per step.  The argument is any sub-list  *)
(* of the sheet's cells, in order, that keeps the header cells: which data *)
(* cells are empty is decided as the walk goes.                            *)

\* toJson has not been called
JsonIdle ==
  /\ sheetDatas = <<>>
  /\ sheetData = <<>>
  /\ collectionMap = EmptyObj
  /\ optionMap = <<>>
  /\ errors = <<>>
  /\ jpc = "idle"
  /\ jret = <<>>

\* no export is under way
RoundIdle ==
  /\ rows = <<>>
  /\ schemaFormat = <<>>
  /\ sheetDataList = <<>>
  /\ cellDataList = <<>>
  /\ formatDataList = <<>>
  /\ roundResult = <<>>
  /\ rpc = "idle"

\* getWorksheetDatas has not been called
FetchIdle ==
  /\ worksheetNames = <<>>
  /\ tasks = <<>>
  /\ results = <<>>
  /\ errList = <<>>
  /\ gpc = "idle"
  /\ gret = <<>>

\* no parser has been called
ParserIdle == ptype = "" /\ parg = <<>> /\ pret = <<>> /\ ppc = "idle"

\* no schema is being exported
SchemaIdle ==
  /\ sschema = <<>> /\ srefs = <<>> /\ sformat = <<>> /\ ssheets = <<>>
  /\ spc = "idle"

InitFormat ==
  /\ \E L \in Layouts : sheet = SheetCells(SheetValues(L), 1)
  /\ pos = 0
  /\ cells = <<>>
  /\ beforeRow = FormatStart.beforeRow
  /\ idx = FormatStart.idx
  /\ list = FormatStart.list
  /\ opts = FormatStart.opts
  /\ fpc = "run"
  /\ JsonIdle /\ RoundIdle /\ FetchIdle /\ ParserIdle /\ SchemaIdle

FormatState == [opts |-> opts, beforeRow |-> beforeRow, idx |-> idx, list |-> list,
                thrown |-> FALSE]

\* the forEach callback on the next cell of the argument, sheet[k]
FormatStep ==
  /\ fpc = "run"
  /\ \E k \in (pos + 1)..Len(sheet) :
       /\ \A m \in (pos + 1)..(k - 1) : MayBeEmpty(sheet[m])
       /\ LET st == FormatCell(FormatState, sheet[k]) IN
            /\ opts' = st.opts
            /\ beforeRow' = st.beforeRow
            /\ idx' = st.idx
            /\ list' = st.list
            /\ fpc' = IF st.thrown THEN "thrown" ELSE "run"
       /\ pos' = k
       /\ cells' = Append(cells, sheet[k])
  /\ UNCHANGED <<sheet, jvars, rvars, gvars, pvars, svars>>

\* lines 687-690: after the last cell, return {opts, list}
FormatReturn ==
  /\ fpc = "run"
  /\ \A m \in (pos + 1)..Len(sheet) : MayBeEmpty(sheet[m])
  /\ fpc' = "done"
  /\ UNCHANGED <<sheet, pos, cells, beforeRow, idx, list, opts, jvars, rvars, gvars, pvars, svars>>

NextFormat == FormatStep \/ FormatReturn

SpecFormat == InitFormat /\ [][NextFormat]_vars

-----------------------------------------------------------------------------
(* Reading a folded record: used by the properties below *)

\* the value a key path leads to inside data, an array segment being read at
\* the index its counter holds in ix; undefined when the path is not there
RECURSIVE ReadKeys(_, _, _, _)
ReadKeys(data, keys, i, ix) ==
  LET v == GetProp(data, StripMark(keys[i]))
      e == IF IsArrayKey(keys[i])
           THEN (IF IsArr(v) /\ PrefixKey(keys, i) \in DOMAIN ix
                 THEN ArrGet(v, ix[PrefixKey(keys, i)].value) ELSE Undef)
           ELSE v
  IN IF i = Len(keys) THEN e
     ELSE IF IsObj(e) THEN ReadKeys(e, keys, i + 1, ix) ELSE Undef

\* the cell the last step visited
LastCell == cells[Len(cells)]

\* the last step folded a data cell of an attributed column without raising
DataCellStep ==
  /\ fpc = "run" /\ fpc' = "run" /\ cells' # cells
  /\ cells'[Len(cells')].cell # option_cell
  /\ cells'[Len(cells')].row # opts.attr_line
  /\ cells'[Len(cells')].row >= opts.data_line
  /\ cells'[Len(cells')].column \in DOMAIN opts.format

IsPrimary(o) == OptStr(o, "type") \in {"", "origin"}

\* every record but the last one is as it was
EarlierRecordsKept(old, new) ==
  /\ Len(new) >= Len(old)
  /\ \A r \in 1..(Len(old) - 1) : new[r] = old[r]

ReadmeCells == SelectSeq(SheetCells(SheetValues(LReadme), 1), LAMBDA c : c.row <= 5)

ReadmeList ==
  <<Obj([_id |-> Str("first"), obj |-> Obj([code |-> Str("one"), value |-> Num(1)])]),
    Obj([_id |-> Str("second"), obj |-> Obj([code |-> Str("two"), value |-> Num(2)])])>>

ReadmeFolded == (fpc = "done" /\ cells = ReadmeCells) => list = ReadmeList

\* C1 as stated: on a primary sheet a data cell of the first ref-key column
\* appends one record, in cell order, and any other data cell of an
\* attributed column is written, coerced, at its key path in the last record
C1_AsStatedStep ==
  (DataCellStep /\ IsPrimary(opts)) =>
    LET c == cells'[Len(cells')]
        f == opts.format[c.column]
    IN IF f.key = opts.ref_keys[1]
       THEN /\ Len(list') = Len(list) + 1
            /\ SubSeq(list', 1, Len(list)) = list
       ELSE /\ Len(list') = Len(list)
            /\ EarlierRecordsKept(list, list')
            /\ ReadKeys(list'[Len(list')], f.keys, 1, idx')
                 = CoerceCell(f.type, IsSplitKey(f.keys[Len(f.keys)]), c.value)

C1_AsStated == [][C1_AsStatedStep]_fvars

\* C1, amended: on a primary sheet a data cell of a non-index column appends
\* one record, in cell order, exactly when its key is the first ref key or a
\* link key (__ref, __ref_0); every data cell of a non-index column then
\* leaves the earlier records alone and its leaf in the last record holds the
\* coerced cell value, unless that leaf already held a truthy value, which is
\* kept; an index cell leaves the records alone; the README sheet folds to
\* the README records
C1_AmendedStep ==
  (DataCellStep /\ IsPrimary(opts)) =>
    LET c == cells'[Len(cells')]
        f == opts.format[c.column]
        start == f.key \in {opts.ref_keys[1], "__ref", "__ref_0"}
        before == IF start THEN EmptyObj ELSE list[Len(list)]
        was == ReadKeys(before, f.keys, 1, idx')
    IN IF f.type = "index" THEN list' = list
       ELSE /\ IF start
               THEN Len(list') = Len(list) + 1 /\ SubSeq(list', 1, Len(list)) = list
               ELSE Len(list') = Len(list) /\ EarlierRecordsKept(list, list')
            /\ ReadKeys(list'[Len(list')], f.keys, 1, idx')
                 = IF Truthy(was) THEN was
                   ELSE CoerceCell(f.type, IsSplitKey(f.keys[Len(f.keys)]), c.value)

C1_Amended == [][C1_AmendedStep /\ ReadmeFolded']_fvars

\* the README sheet has been folded into its two records
C1_Witness == fpc = "done" /\ cells = ReadmeCells /\ Len(list) = 2

\* the array a counter key names inside data (undefined when not there yet)
ReadArray(data, ck, ix) ==
  LET keys == split(ck, ".")
      parent == IF Len(keys) = 1 THEN data
                ELSE ReadKeys(data, SubSeq(keys, 1, Len(keys) - 1), 1, ix)
  IN IF IsObj(parent) THEN GetProp(parent, StripMark(keys[Len(keys)])) ELSE Undef

LastIndex(arr) == IF IsArr(arr) /\ Len(arr.a) # 0 THEN Len(arr.a) - 1 ELSE 0

\* the last step visited a cell without raising
CellStep == fpc = "run" /\ fpc' = "run" /\ cells' # cells

\* the last step appended a record
RecordStarted == Len(list') = Len(list) + 1

RowInc == IF beforeRow' # beforeRow THEN 1 ELSE 0

\* a counter made by this step holds the last index of its array (0 when empty)
FirstUseIndex ==
  \A k \in DOMAIN idx' :
    (idx'[k].type = "normal" /\ (RecordStarted \/ k \notin DOMAIN idx)) =>
      idx'[k].value =
        LastIndex(ReadArray(IF RecordStarted THEN EmptyObj ELSE list[Len(list)], k, idx'))

ArrCells ==
  SelectSeq(SheetCells(SheetValues(LArr), 1),
            LAMBDA c : c.row <= 3 \/ c.cell \in {"A4", "B4", "B5"})

ListCells ==
  SelectSeq(SheetCells(SheetValues(LArr), 1),
            LAMBDA c : c.row <= 3 \/ c.cell \in {"A4", "C4", "D4", "C5", "D5"})

\* #arr with array1 on row 4 and array2 on row 5 gives arr = [array1, array2];
\* #list.code and #list.value fill the same element on the same row
ArraysFolded ==
  /\ (fpc = "done" /\ cells = ArrCells) =>
       list = <<Obj([_id |-> Str("first"),
                     arr |-> Arr(<<Str("array1"), Str("array2")>>)])>>
  /\ (fpc = "done" /\ cells = ListCells) =>
       list = <<Obj([_id |-> Str("first"),
                     list |-> Arr(<<Obj([code |-> Str("c1"), value |-> Num(7)]),
                                    Obj([code |-> Str("c2"), value |-> Num(8)])>>)])>>

\* C2 as stated: a counter that is not set by an index column starts at the
\* last index of its array and advances by one with every new cell row of
\* the record
C2_AsStatedStep ==
  CellStep =>
    /\ FirstUseIndex
    /\ \A k \in DOMAIN idx' :
         (idx'[k].type = "normal" /\ ~RecordStarted /\ k \in DOMAIN idx) =>
           idx'[k].value = idx[k].value + RowInc

C2_AsStated == [][C2_AsStatedStep]_fvars

\* C2, amended: a counter that is not set by an index column starts at the
\* last index of its array (0 when empty) and advances by one with every new
\* cell row of the record, except that an index cell whose value changes
\* puts the counters its key is a prefix of back to 0; the columns of one
\* array share the counter, so they fill the same element on a row and
\* successive elements on successive rows
C2_AmendedStep ==
  CellStep =>
    /\ FirstUseIndex
    /\ \A k \in DOMAIN idx' :
         (idx'[k].type = "normal" /\ ~RecordStarted /\ k \in DOMAIN idx) =>
           \/ idx'[k].value = idx[k].value + RowInc
           \/ /\ idx'[k].value = 0
              /\ cells'[Len(cells')].column \in DOMAIN opts.format
              /\ opts.format[cells'[Len(cells')].column].type = "index"
              /\ RegExpPrefixTest(opts.format[cells'[Len(cells')].column].key, k)

C2_Amended == [][C2_AmendedStep /\ ArraysFolded']_fvars

\* two rows of one record have filled two elements of #arr
C2_Witness ==
  /\ fpc = "done" /\ cells = ArrCells
  /\ "#arr" \in DOMAIN idx /\ idx["#arr"].value = 1

-----------------------------------------------------------------------------
(* Cross-sheet linker: _findOrigin, lines 700-772.  The origin the code    *)
(* walks by reference is a path of property names from dataMap; res is     *)
(* "ok" (a target was made at path), "fail" (undefined is returned) or     *)
(* "throw" (a TypeError: the file is strict code, where setting a property *)
(* of a string, number or boolean raises).                                 *)

\* lines 706-717: the key the origin record is looked up by
OriginKey(o, data) ==
  IF Truthy(GetProp(data, "__ref")) THEN ToStr(GetProp(data, "__ref"))
  ELSE join([i \in 1..Len(o.ref_keys) |->
               ToStr(GetProp(data, "__ref_" \o ToString(i - 1)))], ".")

\* the digits of s, and nothing when s does not end in :digits
InIndexDigits(s) ==
  LET c == LastIndexOf(s, ":") IN
  IF StartsWith(s, "#") /\ c >= 3 /\ c < Len(s) /\ IsDigits(SubSeq(s, c + 1, Len(s)))
  THEN SubSeq(s, c + 1, Len(s)) ELSE ""

\* line 729: s.replace(/^#.+:(\d+)$/, '$1')
InIndex(s) ==
  LET c == LastIndexOf(s, ":") IN
  IF StartsWith(s, "#") /\ c >= 3 /\ c < Len(s) /\ IsDigits(SubSeq(s, c + 1, Len(s)))
  THEN SubSeq(s, c + 1, Len(s)) ELSE s

\* lines 726-751: the walk of opts.key from segment i on
RECURSIVE WalkOrigin(_, _, _, _, _, _)
WalkOrigin(dm, path, keys, i, inq, type) ==
  LET origin == GetAt(dm, path)
      k == keys[i]
      index == IF i <= Len(inq) /\ inq[i] # "" THEN InIndex(inq[i]) ELSE ""
      inKey == IF i <= Len(inq) THEN inq[i] ELSE "undefined"
      key == StripMark(k)
      o1 == SetP(origin, key, OrElse(GetP(origin, key), EmptyArr))
      a1 == SetP(GetP(o1, key), index, OrElse(GetP(GetP(o1, key), index), EmptyObj))
      made == IF i = Len(keys) /\ type = "array" THEN EmptyArr ELSE EmptyObj
  IN
  IF i > Len(keys) THEN [res |-> "ok", dm |-> dm, path |-> path]
  ELSE IF IsArrayKey(k)
  THEN IF index = "" THEN [res |-> "fail", dm |-> dm, path |-> path]
       ELSE IF IsPrimitive(origin) THEN [res |-> "throw", dm |-> dm, path |-> path]
       ELSE IF IsPrimitive(GetP(o1, key))
       THEN [res |-> "throw", dm |-> SetAt(dm, path, o1), path |-> path]
       ELSE WalkOrigin(SetAt(dm, path, SetP(o1, key, a1)), path \o <<key, index>>,
                       keys, i + 1, inq, type)
  ELSE IF k = "$"
  THEN IF Truthy(GetP(origin, inKey))
       THEN WalkOrigin(dm, path \o <<inKey>>, keys, i + 1, inq, type)
       ELSE [res |-> "fail", dm |-> dm, path |-> path]
  ELSE IF IsPrimitive(origin) THEN [res |-> "throw", dm |-> dm, path |-> path]
  ELSE WalkOrigin(SetAt(dm, path, SetP(origin, k, OrElse(GetP(origin, k), made))),
                  path \o <<k>>, keys, i + 1, inq, type)

\* a lookup that makes the origin record when there is none
FindOrMakeOrigin(dataMap, o, data) ==
  [res |-> "ok",
   dm |-> SetProp(dataMap, OriginKey(o, data),
                  OrElse(GetProp(dataMap, OriginKey(o, data)), EmptyObj)),
   path |-> <<OriginKey(o, data)>>]

_findOrigin(dataMap, o, data) ==
  LET dataKeys == OriginKey(o, data)
      type == OptStr(o, "type")
      in == GetProp(data, "__in")
      __key == GetProp(data, "__key")
      w == WalkOrigin(dataMap, <<dataKeys>>, split(o.key, "."), 1,
                      IF Truthy(in) THEN split(in.s, ".") ELSE <<>>, type)
      origin == GetAt(w.dm, w.path)
  IN
  IF ~Truthy(GetProp(dataMap, dataKeys)) \/ OptStr(o, "key") = ""
  THEN [res |-> "fail", dm |-> dataMap, path |-> <<>>]
  ELSE IF Truthy(in) /\ ~IsStr(in)
  THEN [res |-> "throw", dm |-> dataMap, path |-> <<>>]
  ELSE IF w.res # "ok" THEN w
  ELSE IF type = "array"
  THEN IF ~IsArr(origin) THEN [w EXCEPT !.res = "fail"]
       ELSE [res |-> "ok", dm |-> SetAt(w.dm, w.path, ArrPush(origin, EmptyObj)),
             path |-> w.path \o <<ToString(Len(origin.a))>>]
  ELSE IF type = "map"
  THEN IF ~Truthy(__key) THEN [w EXCEPT !.res = "fail"]
       ELSE IF IsPrimitive(origin) THEN [w EXCEPT !.res = "throw"]
       ELSE [res |-> "ok", dm |-> SetAt(w.dm, w.path, SetP(origin, ToStr(__key), EmptyObj)),
             path |-> w.path \o <<ToStr(__key)>>]
  ELSE [w EXCEPT !.res = "fail"]

-----------------------------------------------------------------------------
(* toJson, lines 885-942: one step per iteration of the two forEach loops  *)

\* number of sheets handed to toJson
MaxSheets == 3

\* lines 855-866: what getWorksheetDatas returns for a sheet
SheetData(L) ==
  LET r == _format(SheetCells(SheetValues(L), 1)) IN
  [name |-> L.name, opts |-> r.opts, list |-> r.list]

\* the sheets toJson is handed: any MaxSheets of these, in any order, each
\* with any number of its leading records
JsonSheets ==
  {SheetData(L) : L \in {LTest, LSecondary, LMap, LMapAgain, LNested, LUnknown, LComposite}}

\* a collection named after its sheet, whatever the option cell says
SheetNameOnly(sd) == sd.name

\* line 902
CollectionName(sd) == IF OptStr(sd.opts, "name") # "" THEN sd.opts.name ELSE sd.name

\* lines 914-920: the composite key of a primary record
RecordKey(refKeys, data) ==
  join([i \in 1..Len(refKeys) |-> ToStr(GetProp(data, refKeys[i]))], ".")

\* a record that loses its __ref fields only
StripRefs(data) ==
  Obj([k \in {j \in DOMAIN data.o : ~StartsWith(j, "__ref")} |-> data.o[k]])

\* lines 925-931: the record without its linkage fields
StripLinkage(data) ==
  Obj([k \in {j \in DOMAIN data.o : ~StartsWith(j, "__ref") /\ j \notin {"__in", "__key"}}
         |-> data.o[k]])

\* a merge that copies nothing
AssignNothing(target, source) == target

\* _.assign(target, source)
Assign(target, source) == Obj(source.o @@ target.o)

\* lines 906-911: the options of a collection, merged over its sheets
MergeOptions(om, name, o) ==
  IF name \notin DOMAIN om THEN (name :> o) @@ om
  ELSE (name :> [(om[name] @@ o) EXCEPT !.format = o.format @@ om[name].format]) @@ om

\* the state of toJson before the first sheet; thrown: an exception left it
JsonStart ==
  [collectionMap |-> EmptyObj, optionMap |-> <<>>, errors |-> <<>>, thrown |-> FALSE]

\* lines 900-911: the outer forEach moves on to sheet sd
SheetStart(st, sd) ==
  [st EXCEPT
     !.collectionMap = SetProp(@, CollectionName(sd),
                               OrElse(GetProp(@, CollectionName(sd)), EmptyObj)),
     !.optionMap = MergeOptions(@, CollectionName(sd), sd.opts)]

\* a callback that neither merges nor reports the record
LinkDropped(st, name, data, r) == [st EXCEPT !.thrown = (r.res = "throw")]

\* a callback that reports a failed record and puts the collection back as
\* it was before the walk
LinkRestored(st, name, data, r) ==
  IF r.res = "ok"
  THEN [st EXCEPT !.collectionMap =
          SetProp(@, name,
                  SetAt(r.dm, r.path, Assign(GetAt(r.dm, r.path), StripLinkage(data))))]
  ELSE IF r.res = "fail"
  THEN [st EXCEPT !.errors = (name :> Append(IF name \in DOMAIN @ THEN @[name] ELSE <<>>,
                                             data)) @@ @]
  ELSE [st EXCEPT !.thrown = TRUE]

\* lines 922-937: what the inner forEach callback does with r, the outcome
\* of _findOrigin on a record of a secondary sheet of collection name
LinkOutcome(st, name, data, r) ==
  IF r.res = "ok"
  THEN [st EXCEPT !.collectionMap =
          SetProp(@, name,
                  SetAt(r.dm, r.path, Assign(GetAt(r.dm, r.path), StripLinkage(data))))]
  ELSE IF r.res = "fail"
  THEN [st EXCEPT !.collectionMap = SetProp(@, name, r.dm),
                  !.errors = (name :> Append(IF name \in DOMAIN @ THEN @[name] ELSE <<>>,
                                             data)) @@ @]
  ELSE [st EXCEPT !.thrown = TRUE]

\* lines 912-938: the inner forEach callback on record data of sheet sd
RecordLink(st, sd, data) ==
  IF OptStr(sd.opts, "type") \in {"", "origin"}
  THEN [st EXCEPT !.collectionMap =
          SetProp(@, CollectionName(sd),
                  SetProp(GetProp(@, CollectionName(sd)),
                          RecordKey(sd.opts.ref_keys, data), data))]
  ELSE LinkOutcome(st, CollectionName(sd), data,
                   _findOrigin(GetProp(st.collectionMap, CollectionName(sd)), sd.opts, data))

\* line 941: the arguments of the callback
JsonResult(st) ==
  [err |-> IF DOMAIN st.errors = {} THEN "null" ELSE st.errors,
   collectionMap |-> st.collectionMap, optionMap |-> st.optionMap]

RECURSIVE LinkRecords(_, _, _)
LinkRecords(st, sd, k) ==
  IF k > Len(sd.list) \/ st.thrown THEN st
  ELSE LinkRecords(RecordLink(st, sd, sd.list[k]), sd, k + 1)

RECURSIVE LinkSheets(_, _, _)
LinkSheets(st, sds, i) ==
  IF i > Len(sds) \/ st.thrown THEN st
  ELSE LinkSheets(LinkRecords(SheetStart(st, sds[i]), sds[i], 1), sds, i + 1)

\* toJson(sheetDatas, callback), run to its end: what the callback is called
\* with, unless an exception leaves toJson first
toJson(sds) ==
  LET st == LinkSheets(JsonStart, sds, 1) IN
  [thrown |-> st.thrown, ret |-> JsonResult(st)]

JsonState ==
  [collectionMap |-> collectionMap, optionMap |-> optionMap, errors |-> errors,
   thrown |-> FALSE]

\* _format is not under way
FormatIdle ==
  /\ sheet = <<>> /\ pos = 0 /\ cells = <<>> /\ beforeRow = 0 /\ idx = <<>>
  /\ list = <<>> /\ opts = <<>> /\ fpc = "idle"

InitToJson ==
  /\ FormatIdle /\ RoundIdle /\ FetchIdle /\ ParserIdle /\ SchemaIdle
  /\ sheetDatas = <<>>
  /\ sheetData = <<>>
  /\ collectionMap = EmptyObj
  /\ optionMap = <<>>
  /\ errors = <<>>
  /\ jpc = "run"
  /\ jret = <<>>

\* lines 900-911: the outer forEach moves on to a sheet
ToJsonSheet ==
  /\ jpc = "run"
  /\ Len(sheetDatas) < MaxSheets
  /\ \E sd \in JsonSheets :
       /\ \A i \in 1..Len(sheetDatas) : sheetDatas[i].name # sd.name
       /\ sheetData' = sd
       /\ sheetDatas' = Append(sheetDatas, [sd EXCEPT !.list = <<>>])
       /\ \E st \in {SheetStart(JsonState, sd)} :
            /\ collectionMap' = st.collectionMap
            /\ optionMap' = st.optionMap
  /\ UNCHANGED <<errors, jpc, jret, fvars, rvars, gvars, pvars, svars>>

\* the record the inner forEach visits next
NextData == sheetData.list[Len(sheetDatas[Len(sheetDatas)].list) + 1]

\* lines 912-938: the inner forEach callback on the next record of the sheet
ToJsonRecord ==
  /\ jpc = "run"
  /\ sheetDatas # <<>>
  /\ Len(sheetDatas[Len(sheetDatas)].list) < Len(sheetData.list)
  /\ \E st \in {RecordLink(JsonState, sheetData, NextData)} :
       /\ sheetDatas' = [sheetDatas EXCEPT ![Len(sheetDatas)].list = Append(@, NextData)]
       /\ collectionMap' = st.collectionMap
       /\ errors' = st.errors
       /\ jpc' = IF st.thrown THEN "thrown" ELSE "run"
  /\ UNCHANGED <<sheetData, optionMap, jret, fvars, rvars, gvars, pvars, svars>>

\* line 941: the callback is called
ToJsonReturn ==
  /\ jpc = "run"
  /\ jpc' = "done"
  /\ jret' = JsonResult(JsonState)
  /\ UNCHANGED <<sheetDatas, sheetData, collectionMap, optionMap, errors, fvars, rvars, gvars, pvars, svars>>

NextToJson == ToJsonSheet \/ ToJsonRecord \/ ToJsonReturn

SpecToJson == InitToJson /\ [][NextToJson]_vars

-----------------------------------------------------------------------------
(* Properties of toJson *)

\* the last step was the inner forEach callback on NextData
RecordStep ==
  /\ jpc = "run"
  /\ Len(sheetDatas') = Len(sheetDatas)
  /\ sheetDatas' # sheetDatas

CurName == CollectionName(sheetData)

ErrorsOf(e, name) == IF name \in DOMAIN e THEN e[name] ELSE <<>>

\* the record that NextData names as its origin is not in the collection
OriginMissing ==
  OriginKey(sheetData.opts, NextData) \notin DOMAIN GetProp(collectionMap, CurName).o

\* C7: a record of a secondary sheet whose origin record is not in the
\* collection map adds exactly one entry, the record, to errors[name], and
\* leaves the collection map as it was
C7_Step ==
  (RecordStep /\ ~IsPrimary(sheetData.opts) /\ OriginMissing) =>
    /\ jpc' = "run"
    /\ collectionMap' = collectionMap
    /\ errors' = (CurName :> Append(ErrorsOf(errors, CurName), NextData)) @@ errors

RECURSIVE TargetPath(_, _, _)
TargetPath(keys, inq, i) ==
  IF i > Len(keys) THEN <<>>
  ELSE (IF IsArrayKey(keys[i]) THEN <<StripMark(keys[i]), InIndex(inq[i])>>
        ELSE IF keys[i] = "$" THEN <<inq[i]>>
        ELSE <<keys[i]>>) \o TargetPath(keys, inq, i + 1)

\* every array and `$` segment of the key has its entry in the __in trail
Resolvable(keys, inq) ==
  \A i \in 1..Len(keys) :
    (IsArrayKey(keys[i]) \/ keys[i] = "$") => (i <= Len(inq) /\ inq[i] # "")

InTrail(data) ==
  IF IsStr(GetProp(data, "__in")) /\ GetProp(data, "__in").s # ""
  THEN split(GetProp(data, "__in").s, ".") ELSE <<>>

\* what is on the way to the target is an object or an array, or is not
\* there yet, and what is at the target is an array or is not there yet
Linkable(org, tp) ==
  /\ \A j \in 0..(Len(tp) - 1) :
       LET v == GetAt(org, SubSeq(tp, 1, j)) IN IsObj(v) \/ IsArr(v) \/ IsUndef(v)
  /\ IsArr(GetAt(org, tp)) \/ IsUndef(GetAt(org, tp))

\* C3, one record: on a sheet of type array with key K, a record whose origin
\* record is in the collection and whose target, the place K leads to inside
\* the origin record, is an array or is not there yet, is appended, without
\* its linkage fields, as one new last element of the array at that place;
\* the other records of the collection stay as they are and nothing is
\* reported
C3_Step ==
  LET o == sheetData.opts
      data == NextData
      k == OriginKey(o, data)
      dm == GetProp(collectionMap, CurName)
      keys == split(o.key, ".")
      tp == TargetPath(keys, InTrail(data), 1)
      old == GetAt(GetProp(dm, k), tp)
  IN
  (/\ RecordStep /\ OptStr(o, "type") = "array" /\ OptStr(o, "key") # ""
   /\ ~OriginMissing /\ Resolvable(keys, InTrail(data))
   /\ Linkable(GetProp(dm, k), tp)) =>
    /\ jpc' = "run"
    /\ errors' = errors
    /\ GetAt(collectionMap', <<CurName, k>> \o tp)
         = [(IF IsArr(old) THEN old ELSE EmptyArr) EXCEPT
              !.a = Append(@, StripLinkage(data))]
    /\ \A j \in DOMAIN dm.o \ {k} : GetAt(collectionMap', <<CurName, j>>) = dm.o[j]

\* the last record of q that has key k, for a sequence q of [k, d] pairs
LastWithKey(q, k) ==
  q[CHOOSE i \in 1..Len(q) : q[i].k = k /\ \A j \in (i + 1)..Len(q) : q[j].k # k].d

\* the records of sheet sd with their composite keys
Keyed(sd) ==
  [r \in 1..Len(sd.list) |-> [k |-> RecordKey(sd.opts.ref_keys, sd.list[r]), d |-> sd.list[r]]]

\* toJson was handed the primary sheet of Test and then the array sheet
OriginThenArray ==
  /\ jpc = "done" /\ Len(sheetDatas) = 2
  /\ sheetDatas[1].name = "Sheet1" /\ sheetDatas[2].name = "Sheet1.list"

\* C3, n records: after the primary sheet and then the array sheet with key
\* list, a primary record that had no list holds in list exactly the records
\* of the array sheet that name it, in list order
C3_Final ==
  OriginThenArray =>
    \A k \in DOMAIN GetProp(collectionMap, "Test").o :
      LET stored == LastWithKey(Keyed(sheetDatas[1]), k)
          linked == SelectSeq(sheetDatas[2].list,
                              LAMBDA d : OriginKey(sheetDatas[2].opts, d) = k)
      IN ("list" \notin DOMAIN stored.o /\ linked # <<>>) =>
           GetAt(collectionMap, <<"Test", k, "list">>)
             = Arr([i \in 1..Len(linked) |-> StripLinkage(linked[i])])

FiledUnder(sd) ==
  IF "name" \in DOMAIN sd.opts /\ sd.opts.name # "" THEN sd.opts.name ELSE sd.name

\* no secondary sheet of collection name has been visited
NothingLinked(name) ==
  \A i \in 1..Len(sheetDatas) :
    FiledUnder(sheetDatas[i]) = name => IsPrimary(sheetDatas[i].opts)

\* the composite key of record r of sheet i
KeyOf(i, r) == RecordKey(sheetDatas[i].opts.ref_keys, sheetDatas[i].list[r])

\* C4 as stated: every record of a primary sheet visited so far is found at
\* collectionMap[opts.name or the sheet name][its ref-key values joined by
\* '.'], as folded (looked up before any secondary sheet links into the
\* collection)
C4_AsStated ==
  \A i \in 1..Len(sheetDatas) :
    LET sd == sheetDatas[i] IN
    (IsPrimary(sd.opts) /\ NothingLinked(FiledUnder(sd))) =>
      \A r \in 1..Len(sd.list) :
        GetAt(collectionMap, <<FiledUnder(sd), KeyOf(i, r)>>) = sd.list[r]

\* a record of a primary sheet is put at its composite key in its collection
C4_Step ==
  (RecordStep /\ IsPrimary(sheetData.opts)) =>
    /\ jpc' = "run"
    /\ errors' = errors
    /\ DOMAIN collectionMap'.o = DOMAIN collectionMap.o
    /\ GetAt(collectionMap',
             <<FiledUnder(sheetData), RecordKey(sheetData.opts.ref_keys, NextData)>>)
         = NextData

\* C4, amended: toJson stores every record of a primary sheet at
\* collectionMap[opts.name or the sheet name][its ref-key values joined by
\* '.'], in place of any record stored there before; looking a composite key
\* up afterwards returns the folded record stored there last: what is at a
\* composite key changes only when toJson visits another primary record of
\* the collection with that key, or a secondary record that names that key
\* as its origin
C4_Kept ==
  \A name \in DOMAIN collectionMap.o :
    \A k \in DOMAIN collectionMap.o[name].o :
      \/ GetAt(collectionMap', <<name, k>>) = collectionMap.o[name].o[k]
      \/ /\ RecordStep /\ CurName = name
         /\ IF IsPrimary(sheetData.opts)
            THEN RecordKey(sheetData.opts.ref_keys, NextData) = k
            ELSE OriginKey(sheetData.opts, NextData) = k

C4_Amended == [][C4_Step /\ C4_Kept]_vars

\* the third record of the primary sheet took the place of the first one,
\* under the name of the option cell
C4_Witness ==
  /\ jpc = "done" /\ Len(sheetDatas) = 1 /\ sheetDatas[1].name = "Sheet1"
  /\ Len(sheetDatas[1].list) = 3
  /\ GetAt(collectionMap, <<"Test", "first">>) = sheetDatas[1].list[3]
  /\ sheetDatas[1].list[3] # sheetDatas[1].list[1]

\* C8 as stated: toJson never aborts on a record: every record either is
\* stored or merged, with nothing reported, or is added to errors[name];
\* the callback gets the error lists (null when there is none), the
\* collection map and the option map
C8_Step ==
  /\ RecordStep =>
       /\ jpc' = "run"
       /\ \/ errors' = errors
          \/ /\ errors' = (CurName :> Append(ErrorsOf(errors, CurName), NextData)) @@ errors
             /\ ~IsPrimary(sheetData.opts)
  /\ (jpc = "run" /\ jpc' = "done") =>
       /\ jret'.err = (IF \A n \in DOMAIN errors : errors[n] = <<>> THEN "null" ELSE errors)
       /\ jret'.collectionMap = collectionMap
       /\ jret'.optionMap = optionMap

C8_AsStated == [][C8_Step]_vars

LinkageKey(k) == StartsWith(k, "__ref") \/ k \in {"__in", "__key"}

\* an object at v or anywhere inside it has a linkage field
RECURSIVE HoldsLinkageKey(_)
HoldsLinkageKey(v) ==
  IF IsObj(v)
  THEN \E k \in DOMAIN v.o : LinkageKey(k) \/ HoldsLinkageKey(v.o[k])
  ELSE IF IsArr(v)
  THEN \/ \E i \in 1..Len(v.a) : HoldsLinkageKey(v.a[i])
       \/ "p" \in DOMAIN v /\ \E k \in DOMAIN v.p : LinkageKey(k) \/ HoldsLinkageKey(v.p[k])
  ELSE FALSE

-----------------------------------------------------------------------------
(* Flattener: toCells, lines 1109-1234 *)

\* columnToNumber and separateCell, lines 78-103, for a one-letter column
columnToNumber(column) == IndexOf(Upper, column)
separateCell(cell) ==
  [column |-> Ch(cell, 1),
   col |-> columnToNumber(Ch(cell, 1)),
   row |-> StrToNat(SubSeq(cell, 2, Len(cell)))]

\* the path of a lodash key: 'list[0].code' is list, 0, code
PathSegment(seg) ==
  LET i == IndexOf(seg, "[") IN
  IF i > 1 /\ Ch(seg, Len(seg)) = "]"
  THEN <<SubSeq(seg, 1, i - 1), SubSeq(seg, i + 1, Len(seg) - 1)>>
  ELSE <<seg>>

RECURSIVE ConcatSegments(_)
ConcatSegments(q) ==
  IF q = <<>> THEN <<>> ELSE PathSegment(Head(q)) \o ConcatSegments(Tail(q))

\* _.get(data, key): a property named by the whole key wins, then the path
_get(data, key) ==
  IF IsObj(data) /\ key \in DOMAIN data.o THEN data.o[key]
  ELSE GetAt(data, ConcatSegments(split(key, ".")))

\* the formatter of a type, lines 162-191: every formatter but the one of
\* date, which no column of the model has, returns its argument
Stringify(type, d) == d

\* attr.replace(/^.+:(.+)$/, '$1')
FormatType(attr) ==
  LET i == LastIndexOf(SubSeq(attr, 1, Len(attr) - 1), ":") IN
  IF i > 1 THEN SubSeq(attr, i + 1, Len(attr)) ELSE attr

\* s.replace(c, ''): the first occurrence of the character goes
RemoveFirst(s, c) ==
  LET i == IndexOf(s, c) IN
  IF i = 0 THEN s ELSE SubSeq(s, 1, i - 1) \o SubSeq(s, i + 1, Len(s))

\* the key with the mark of a split array left in place
SearchKeyMarked(attr) ==
  LET i == IndexOf(attr, ":") IN
  IF i > 0 /\ i < Len(attr) THEN SubSeq(attr, 1, i - 1) ELSE attr

\* attr.replace(/:.+$/, '').replace('$', '')
SearchKey(attr) ==
  LET i == IndexOf(attr, ":") IN
  RemoveFirst(IF i > 0 /\ i < Len(attr) THEN SubSeq(attr, 1, i - 1) ELSE attr, "$")

\* where /#(\w+)/ matches first in s: the position of '#' and of the last
\* character of the word; 0 when it does not match
HashAt(s) ==
  LET M == {i \in 1..(Len(s) - 1) : Ch(s, i) = "#" /\ Ch(s, i + 1) \in WordChars} IN
  IF M = {} THEN 0 ELSE CHOOSE i \in M : \A j \in M : i <= j

WordEnd(s, h) ==
  CHOOSE e \in (h + 1)..Len(s) :
    /\ IsWord(SubSeq(s, h + 1, e))
    /\ e = Len(s) \/ Ch(s, e + 1) \notin WordChars

\* attr.replace(/#(\w+).*$/, '$1')
ArrayKey(attr) ==
  LET h == HashAt(attr) IN
  IF h = 0 THEN attr
  ELSE SubSeq(attr, 1, h - 1) \o SubSeq(attr, h + 1, WordEnd(attr, h))

\* searchKey.replace(/#(\w+)/, `$1[${j}]`)
ElementKey(searchKey, j) ==
  LET h == HashAt(searchKey) IN
  IF h = 0 THEN searchKey
  ELSE SubSeq(searchKey, 1, h - 1) \o SubSeq(searchKey, h + 1, WordEnd(searchKey, h))
       \o "[" \o ToString(j) \o "]"
       \o SubSeq(searchKey, WordEnd(searchKey, h) + 1, Len(searchKey))

\* _.map(value, stringify).join() of an array or a primitive: the characters
\* of a string are its elements, a number or a boolean has none
JoinValues(type, value) ==
  CASE IsArr(value) ->
         Str(ToStr(Arr([i \in 1..Len(value.a) |-> Stringify(type, value.a[i])])))
    [] IsStr(value) -> Str(join([i \in 1..Len(value.s) |-> Ch(value.s, i)], ","))
    [] IsNum(value) \/ IsBool(value) \/ IsNaN(value) -> Str("")

\* the cell of column i for a value found, lines 1165-1177 and 1183-1196
ValueCells(attr, i, row, value) ==
  IF IsUndef(value) THEN {}
  ELSE {[col |-> i, row |-> row,
         value |-> IF IsSplitKey(split(attr, ".")[Len(split(attr, "."))])
                   THEN JoinValues(FormatType(attr), value)
                   ELSE Stringify(FormatType(attr), value)]}

\* the elements of an array put on every other row
AttrCellsApart(data, attr, i, row) ==
  IF IndexOf(attr, "#") > 0
  THEN LET arr == _get(data, ArrayKey(attr)) IN
       UNION {ValueCells(attr, i, row + 2 * j, _get(data, ElementKey(SearchKey(attr), j))) :
                j \in 0..((IF IsArr(arr) THEN Len(arr.a) ELSE 0) - 1)}
  ELSE ValueCells(attr, i, row, _get(data, SearchKey(attr)))

\* the forEach callback of addCell on column i, lines 1152-1197; the array
\* it walks is an array or undefined in every call of the model
AttrCells(data, attr, i, row) ==
  IF IndexOf(attr, "#") > 0
  THEN LET arr == _get(data, ArrayKey(attr)) IN
       UNION {ValueCells(attr, i, row + j, _get(data, ElementKey(SearchKey(attr), j))) :
                j \in 0..((IF IsArr(arr) THEN Len(arr.a) ELSE 0) - 1)}
  ELSE ValueCells(attr, i, row, _get(data, SearchKey(attr)))

\* addCell, lines 1150-1202
addCell(format, data, row) ==
  UNION {AttrCells(data, format[i], i, row) : i \in 1..Len(format)}

\* `__ref_${i}`
RefName(i) == "__ref_" \o ToString(i)

\* lines 1206-1212: the ref fields of the records of a secondary sheet
RefOrigin(o, data) ==
  LET rk == IF "ref_keys" \in DOMAIN o THEN o.ref_keys ELSE ref_keys IN
  Obj([k \in {RefName(i - 1) : i \in 1..Len(rk)} |->
         GetP(data, rk[CHOOSE i \in 1..Len(rk) : RefName(i - 1) = k])])

\* lines 1204-1225: the records addCell is called on, in order
RECURSIVE CellRecords(_, _, _)
CellRecords(o, datas, k) ==
  IF k > Len(datas) THEN <<>>
  ELSE (IF OptStr(o, "type") = "array"
        THEN LET sub == _get(datas[k], OptStr(o, "key")) IN
             [j \in 1..(IF IsArr(sub) THEN Len(sub.a) ELSE 0) |->
                IF IsObj(sub.a[j]) THEN Assign(RefOrigin(o, datas[k]), sub.a[j])
                ELSE RefOrigin(o, datas[k])]
        ELSE <<datas[k]>>)
       \o CellRecords(o, datas, k + 1)

\* every record put on the row after the first row of the record before it
RECURSIVE AddCellsNextRow(_, _, _, _)
AddCellsNextRow(format, recs, k, row) ==
  IF k > Len(recs) THEN [cells |-> {}, maxRow |-> row]
  ELSE LET rest == AddCellsNextRow(format, recs, k + 1, row + 1) IN
       [cells |-> addCell(format, recs[k], row) \cup rest.cells, maxRow |-> rest.maxRow]

\* the records laid out alike, the row returned being the last row reserved
RECURSIVE AddCellsLastRow(_, _, _, _)
AddCellsLastRow(format, recs, k, row) ==
  IF k > Len(recs) THEN [cells |-> {}, maxRow |-> row - 1]
  ELSE LET cs == addCell(format, recs[k], row)
           top == CHOOSE m \in {row} \cup {c.row : c \in cs} :
                    \A c \in cs : c.row <= m
           rest == AddCellsLastRow(format, recs, k + 1, top + 1)
       IN [cells |-> cs \cup rest.cells, maxRow |-> rest.maxRow]

\* lines 1204-1225: row is maxRow when addCell is called on record k
RECURSIVE AddCells(_, _, _, _)
AddCells(format, recs, k, row) ==
  IF k > Len(recs) THEN [cells |-> {}, maxRow |-> row]
  ELSE LET cs == addCell(format, recs[k], row)
           top == CHOOSE m \in {row} \cup {c.row : c \in cs} :
                    \A c \in cs : c.row <= m
           rest == AddCells(format, recs, k + 1, top + 1)
       IN [cells |-> cs \cup rest.cells, maxRow |-> rest.maxRow]

\* _.sortBy(cells, ['row', 'col']) of cells no two of which share a place
CellBefore(c, d) == c.row < d.row \/ (c.row = d.row /\ c.col < d.col)
SortCells(S) ==
  [n \in 1..Cardinality(S) |->
     CHOOSE c \in S : Cardinality({d \in S : CellBefore(d, c)}) = n - 1]

toCells(worksheetData) ==
  LET o == worksheetData.opts
      cr == separateCell(option_cell)
      head == {[col |-> cr.col, row |-> cr.row, value |-> Str(JSONstringify(o))]}
              \cup {[col |-> i, row |-> attr_line, value |-> Str(worksheetData.format[i])] :
                      i \in 1..Len(worksheetData.format)}
              \cup {[col |-> i, row |-> desc_line, value |-> Str(worksheetData.description[i])] :
                      i \in 1..Len(worksheetData.description)}
      body == AddCells(worksheetData.format, CellRecords(o, worksheetData.datas, 1),
                       1, data_line)
  IN [maxCol |-> Len(worksheetData.format),
      maxRow |-> body.maxRow,
      cells |-> SortCells(head \cup body.cells),
      name |-> worksheetData.name,
      opts |-> o]

-----------------------------------------------------------------------------
(* Folding a grid and flattening the folded records *)

\* the texts of row r of the grid, by column, "" where the grid has no cell
RowTexts(r) ==
  LET R == {i \in 1..Len(cells) : cells[i].row = r}
      C == {columnToNumber(cells[i].column) : i \in R}
      n == IF C = {} THEN 0 ELSE CHOOSE j \in C : \A m \in C : m <= j
  IN [j \in 1..n |->
        IF j \in C
        THEN cells[CHOOSE i \in R : cells[i].column = COLUMN_KEYMAP(j)].value.s
        ELSE ""]

\* the options the option cell of the grid holds
HasOptionCell == cells # <<>> /\ cells[1].cell = option_cell
GridOptions == IF HasOptionCell THEN JSONparse(cells[1].value.s).v ELSE <<>>

\* toCells on the folded records, under the attribute row, the description
\* row and the options of the grid
Flattened ==
  toCells([opts |-> GridOptions, format |-> RowTexts(attr_line),
           description |-> RowTexts(desc_line), datas |-> list, name |-> ""]).cells

\* the cells lines 833-851 read from a sheet: place and text, no empty cell
ReadBack(cs) ==
  {[column |-> COLUMN_KEYMAP(cs[i].col), row |-> cs[i].row, value |-> ToStr(cs[i].value)] :
     i \in {n \in 1..Len(cs) : ToStr(cs[n].value) # ""}}

Grid ==
  {[column |-> cells[i].column, row |-> cells[i].row, value |-> cells[i].value.s] :
     i \in 1..Len(cells)}

\* the data cells _format stores a value for
IsStored(i) ==
  /\ cells[i].cell # option_cell
  /\ cells[i].row # opts.attr_line
  /\ cells[i].row >= opts.data_line
  /\ cells[i].column \in DOMAIN opts.format
  /\ opts.format[cells[i].column].type # "index"

FormatOf(i) == opts.format[cells[i].column]
IsSplitCell(i) == IsSplitKey(FormatOf(i).keys[Len(FormatOf(i).keys)])

\* the columns whose cells start a record
RefColumns == {c \in DOMAIN opts.format : IsRecordStart(opts, opts.format[c].key)}

\* the number of defined scalars in a value
RECURSIVE LeafCount(_)
LeafCount(v) ==
  IF IsObj(v)
  THEN IF DOMAIN v.o = {} THEN 0
       ELSE LET k == CHOOSE k \in DOMAIN v.o : TRUE IN
            LeafCount(v.o[k]) + LeafCount(DelProp(v, k))
  ELSE IF IsArr(v)
  THEN IF v.a = <<>> THEN 0 ELSE LeafCount(v.a[1]) + LeafCount(Arr(Tail(v.a)))
  ELSE IF IsUndef(v) THEN 0 ELSE 1

\* the number of scalars the first i cells of the grid hold
RECURSIVE CellLeaves(_)
CellLeaves(i) ==
  IF i = 0 THEN 0
  ELSE CellLeaves(i - 1)
       + (IF ~IsStored(i) THEN 0
          ELSE IF IsSplitCell(i) THEN Len(split(cells[i].value.s, ","))
          ELSE 1)

\* every scalar of the grid is a scalar of the folded records: no cell was
\* dropped and no two cells share an element
CardinalitiesPreserved == LeafCount(Arr(list)) = CellLeaves(Len(cells))

RecordCell(i) ==
  LET S == {j \in 1..i : IsStored(j) /\ cells[j].column \in RefColumns} IN
  IF S = {} THEN 0 ELSE CHOOSE j \in S : \A m \in S : m <= j

\* the counter of the array a stored cell belongs to, "" outside an array
ArrayOf(i) ==
  LET keys == FormatOf(i).keys
      A == {n \in 1..Len(keys) : IsArrayKey(keys[n])}
  IN IF A = {} THEN "" ELSE PrefixKey(keys, CHOOSE n \in A : \A m \in A : n <= m)

\* the option cell is the text JSON.stringify gives its options, and the
\* options set nothing but name, type, key and ref_keys, and do not make the
\* sheet an array sheet
PlainOptions ==
  /\ HasOptionCell
  /\ JSONstringify(GridOptions) = cells[1].value.s
  /\ DOMAIN GridOptions \subseteq {"name", "type", "key", "ref_keys"}
  /\ OptStr(opts, "type") # "array"

\* the path of a column, without the marks of its segments
PathOf(c) == [n \in 1..Len(opts.format[c].keys) |-> StripMark(opts.format[c].keys[n])]
IsPrefix(p, q) == Len(p) <= Len(q) /\ SubSeq(q, 1, Len(p)) = p

\* the attribute row has no gap; the segments of a column are words, of
\* which at most one is marked as an array and only the last may be marked
\* as a split array; no column is a date column; no column names a place
\* that is or holds the place of another; and every cell is the option
\* cell, an attribute, a description or a stored data cell
PlainColumns ==
  /\ \A t \in {RowTexts(attr_line)} : \A j \in 1..Len(t) : t[j] # ""
  /\ \A c \in DOMAIN opts.format :
       /\ opts.format[c].type # "date"
       /\ \A p \in {PathOf(c)} : \A n \in 1..Len(p) :
            /\ p[n] # "" /\ IsWord(p[n])
            /\ IsSplitKey(opts.format[c].keys[n]) => n = Len(p)
  /\ \A c, d \in DOMAIN opts.format : c # d => ~IsPrefix(PathOf(c), PathOf(d))
  /\ \A c \in DOMAIN opts.format :
       Cardinality({n \in 1..Len(opts.format[c].keys) :
                      IsArrayKey(opts.format[c].keys[n])}) <= 1
  /\ \A i \in 1..Len(cells) :
       \/ cells[i].cell = option_cell
       \/ cells[i].row \in {attr_line, desc_line}
       \/ IsStored(i)

\* String(value) of the value a data cell is coerced to is the cell's text
TextKept ==
  \A i \in 1..Len(cells) :
    IsStored(i) =>
      ToStr(CoerceCell(FormatOf(i).type, IsSplitCell(i), cells[i].value)) = cells[i].value.s

\* the data rows are consecutive from the data line; a record starts with
\* the first cell of a row; a cell outside an array is on the first row of
\* its record, and every array of a record has a cell on that row
RowsInOrder ==
  \A i \in 1..Len(cells) :
    IsStored(i) =>
      /\ IF i > 1 /\ IsStored(i - 1)
         THEN cells[i].row <= cells[i - 1].row + 1
         ELSE cells[i].row = data_line
      /\ (cells[i].column \in RefColumns /\ i > 1) => cells[i - 1].row < cells[i].row
      /\ \E rc \in {RecordCell(i)} \ {0} :
           IF ArrayOf(i) = "" THEN cells[i].row = cells[rc].row
           ELSE \E j \in rc..i :
                  /\ IsStored(j) /\ ArrayOf(j) = ArrayOf(i)
                  /\ cells[j].row = cells[rc].row

-----------------------------------------------------------------------------
(* Schema convertor: convertSchema2Format, lines 950-1009 *)

\* a schema is [type], with [properties], a list of [key, sc], on an object,
\* [items] on an array, and [format], [allOf], [oneOf] where it has them
Field(sc, f, d) == IF f \in DOMAIN sc THEN sc[f] ELSE d

\* _.uniq
RECURSIVE uniq(_)
uniq(q) ==
  IF q = <<>> THEN <<>>
  ELSE LET r == uniq(SubSeq(q, 1, Len(q) - 1)) IN
       IF \E i \in 1..Len(r) : r[i] = q[Len(q)] THEN r ELSE Append(r, q[Len(q)])

\* lines 1005-1008: _.sortBy on the place among the ref keys, then on the index
SortRank(refKeys, n, index) ==
  LET R == {i \in 1..Len(refKeys) : refKeys[i] = StripType(n)} IN
  IF R = {} THEN index - 1
  ELSE (Len(refKeys) - ((CHOOSE i \in R : \A j \in R : i <= j) - 1)) * (-1)

\* no sort at all
Unsorted(refKeys, q) == q

\* the entries of q from the i-th on, each with the rank the iteratee gives it
RECURSIVE Ranked(_, _, _)
Ranked(refKeys, q, i) ==
  IF i > Len(q) THEN <<>>
  ELSE <<[n |-> q[i], rank |-> SortRank(refKeys, q[i], i)]>> \o Ranked(refKeys, q, i + 1)

\* a stable sort on the rank: each entry goes behind those of the entries
\* before it whose rank is not higher
RECURSIVE SortRanked(_)
SortRanked(q) ==
  IF q = <<>> THEN <<>>
  ELSE LET s == SortRanked(SubSeq(q, 1, Len(q) - 1))
           x == q[Len(q)]
           k == Cardinality({i \in 1..Len(s) : s[i].rank <= x.rank})
       IN SubSeq(s, 1, k) \o <<x>> \o SubSeq(s, k + 1, Len(s))

RECURSIVE Names(_)
Names(q) == IF q = <<>> THEN <<>> ELSE <<Head(q).n>> \o Names(Tail(q))

SortFormat(refKeys, q) == Names(SortRanked(Ranked(refKeys, q, 1)))

\* a segment that is never marked
NextKeyPlain(key, sc) == key

\* lines 968-975: the segment of a property
NextKey(key, sc) ==
  IF sc.type = "array" /\ "items" \in DOMAIN sc
  THEN IF sc.items.type = "object" THEN "#" \o key
       ELSE IF sc.items.type # "array" THEN "$" \o key
       ELSE key
  ELSE key

\* a loop that visits nothing
ConvertNothing(q, refKeys, path, props, acc) == acc

\* [thrown |-> TRUE]: `invalid schema type` was thrown, and nothing is returned
RECURSIVE convertSchema2Format(_, _, _)
RECURSIVE ConvertEach(_, _, _, _, _)

\* lines 967-989: one of the three forEach loops of an object, on the
\* schemas of q that are left, with acc the result so far; props is TRUE on
\* the properties, and FALSE on allOf and oneOf, after each of which the
\* result loses its duplicates
ConvertEach(q, refKeys, path, props, acc) ==
  IF q = <<>> \/ acc.thrown THEN acc
  ELSE LET sc == IF props THEN Head(q).sc ELSE Head(q)
           nextPath == IF ~props THEN path
                       ELSE IF path # "" THEN path \o "." \o NextKey(Head(q).key, sc)
                       ELSE NextKey(Head(q).key, sc)
           r == convertSchema2Format(sc, refKeys, nextPath)
       IN ConvertEach(Tail(q), refKeys, path, props,
                      [thrown |-> r.thrown,
                       result |-> IF props THEN acc.result \o r.result
                                  ELSE uniq(acc.result \o r.result)])

convertSchema2Format(schema, refKeys, path) ==
  LET none == [thrown |-> FALSE, result |-> <<>>]
      r == CASE schema.type \in {"string", "boolean"} ->
                  [none EXCEPT !.result = <<path \o ":" \o schema.type>>]
             [] schema.type \in {"number", "integer"} ->
                  [none EXCEPT !.result =
                     <<path \o (IF Field(schema, "format", "") = "date-time"
                                THEN ":date" ELSE ":number")>>]
             [] schema.type = "object" ->
                  ConvertEach(Field(schema, "oneOf", <<>>), refKeys, path, FALSE,
                    ConvertEach(Field(schema, "allOf", <<>>), refKeys, path, FALSE,
                      ConvertEach(Field(schema, "properties", <<>>), refKeys, path,
                                  TRUE, none)))
             [] schema.type = "array" /\ "items" \in DOMAIN schema ->
                  convertSchema2Format(
                    schema.items, refKeys,
                    IF path # "" THEN path
                    ELSE IF schema.items.type = "object" THEN "#" ELSE "$")
             [] OTHER -> [thrown |-> TRUE, result |-> <<>>]
      result == r.result
  IN IF r.thrown THEN [thrown |-> TRUE, result |-> <<>>]
     ELSE [thrown |-> FALSE, result |-> SortFormat(refKeys, result)]

-----------------------------------------------------------------------------
(* Sheet splitter: splitSheetData, lines 1018-1097 *)

\* keys.match(/#/g): the number of '#' in keys
CountHash(keys) == Cardinality({i \in 1..Len(keys) : Ch(keys, i) = "#"})

\* keys.match(/^([^#]+)?#([^#.]+)\..+$/): [ok, pre, key], the text before the
\* first '#' and the text from it to the first '.' after it
NestMatch(keys) ==
  LET h == IndexOf(keys, "#")
      rest == SubSeq(keys, h + 1, Len(keys))
      d == IndexOf(rest, ".")
      g == IndexOf(rest, "#")
  IN IF h > 0 /\ d > 1 /\ (g = 0 \/ g > d) /\ d < Len(rest)
     THEN [ok |-> TRUE, pre |-> SubSeq(keys, 1, h - 1), key |-> SubSeq(rest, 1, d - 1)]
     ELSE [ok |-> FALSE, pre |-> "", key |-> ""]

\* the text new RegExp(`^${pre}#${key}\\.`) matches at the start of keys, ""
\* when it does not match: '.' in pre or key matches any character, '$' never
\* matches, every other character of the model matches itself
CheckPrefix(m, keys) ==
  LET p == m.pre \o "#" \o m.key IN
  IF /\ Len(keys) > Len(p)
     /\ \A i \in 1..Len(p) : \/ Ch(p, i) = "."
                             \/ Ch(p, i) # "$" /\ Ch(p, i) = Ch(keys, i)
     /\ Ch(keys, Len(p) + 1) = "."
  THEN SubSeq(keys, 1, Len(p) + 1) ELSE ""

\* no nested array is looked for
NoChecks(q, acc) == acc

\* lines 1045-1065: the matches of the nested arrays, one for each check
RECURSIVE Checks(_, _)
Checks(q, acc) ==
  IF q = <<>> THEN acc
  ELSE Checks(Tail(q),
              IF (\E i \in 1..Len(acc) : CheckPrefix(acc[i], Head(q)) # "")
                 \/ CountHash(Head(q)) < 2 \/ ~NestMatch(Head(q)).ok
              THEN acc ELSE Append(acc, NestMatch(Head(q))))

\* s.replace(/#|\$/g, r): every '#' and '$' of s replaced by r
RECURSIVE ReplaceMarks(_, _)
ReplaceMarks(s, r) ==
  IF s = "" THEN ""
  ELSE (IF Ch(s, 1) \in {"#", "$"} THEN r ELSE Ch(s, 1))
       \o ReplaceMarks(SubSeq(s, 2, Len(s)), r)

\* s.replace(/:.+$/, '')
StripFromColon(s) ==
  LET i == IndexOf(s, ":") IN
  IF i > 0 /\ i < Len(s) THEN SubSeq(s, 1, i - 1) ELSE s

\* lines 1077 and 1093: the description of a column
Describe(keys, r) ==
  LET q == split(StripFromColon(ReplaceMarks(keys, r)), ".") IN q[Len(q)]

\* the place of the sheet called n in the list of sheets, 0 when it is not there
SheetAt(map, n) ==
  IF \E i \in 1..Len(map) : map[i].name = n
  THEN CHOOSE i \in 1..Len(map) : map[i].name = n ELSE 0

\* lines 1083-1091: the secondary sheet of a nested array, as it is made
NewSheet(first, refKeys, sheetName, key) ==
  [name |-> sheetName,
   opts |-> first.opts @@ [type |-> "array", key |-> key],
   format |-> [i \in 1..Len(refKeys) |-> RefName(i - 1)],
   description |-> refKeys,
   datas |-> first.datas]

\* lines 1067-1094: the second forEach, on the columns of q
RECURSIVE SplitColumns(_, _, _, _)
SplitColumns(q, checks, refKeys, map) ==
  IF q = <<>> THEN map
  ELSE LET keys == Head(q)
           C == {i \in 1..Len(checks) : CheckPrefix(checks[i], keys) # ""}
           c == CHOOSE i \in C : \A j \in C : i <= j
           key == checks[c].pre \o checks[c].key
           sheetName == map[1].name \o "." \o key
           _keys == SubSeq(keys, Len(CheckPrefix(checks[c], keys)) + 1, Len(keys))
           made == IF SheetAt(map, sheetName) = 0
                   THEN Append(map, NewSheet(map[1], refKeys, sheetName, key))
                   ELSE map
           at == IF C = {} THEN 1 ELSE SheetAt(made, sheetName)
       IN SplitColumns(Tail(q), checks, refKeys,
            IF C = {}
            THEN [map EXCEPT ![1].format = Append(@, keys),
                             ![1].description = Append(@, Describe(keys, ""))]
            ELSE [made EXCEPT ![at].format = Append(@, _keys),
                              ![at].description = Append(@, Describe(_keys, "."))])

\* _.values(map): the sheets in the order they were made, the primary first
splitSheetData(name, refKeys, format, datas) ==
  SplitColumns(format, Checks(format, <<>>), refKeys,
               <<[name |-> name,
                  opts |-> [name |-> name, ref_keys |-> refKeys, attr_line |-> attr_line,
                            desc_line |-> desc_line, data_line |-> data_line],
                  format |-> <<>>,
                  description |-> <<>>,
                  datas |-> datas]>>)

-----------------------------------------------------------------------------
(* Export and import: records to sheets and back.  The calls are those of  *)
(* the test `all`: convertSchema2Format, splitSheetData, toCells on each   *)
(* sheet, _format on each list of cells, toJson.                           *)

\* longest array of a record
MaxElems == 2

TestName == "Test1"
TestRefKeys == <<"_id">>

StringSchema == [type |-> "string"]
NumberSchema == [type |-> "number"]
ArraySchema(items) == [type |-> "array", items |-> items]
ObjectSchema(properties) == [type |-> "object", properties |-> properties]
Prop(key, sc) == [key |-> key, sc |-> sc]

\* the schema of the records: scalars, an object, split arrays, an array of
\* objects and an array of objects that hold an array of objects
TestSchema ==
  ObjectSchema(
    <<Prop("num", NumberSchema),
      Prop("_id", StringSchema),
      Prop("obj", ObjectSchema(<<Prop("type1", StringSchema)>>)),
      Prop("tags", ArraySchema(StringSchema)),
      Prop("arr", ArraySchema(NumberSchema)),
      Prop("lists", ArraySchema(ObjectSchema(<<Prop("code", StringSchema),
                                              Prop("bool", [type |-> "boolean"])>>))),
      Prop("list", ArraySchema(ObjectSchema(
        <<Prop("code", StringSchema),
          Prop("arr", ArraySchema(NumberSchema)),
          Prop("list", ArraySchema(ObjectSchema(<<Prop("code", StringSchema)>>)))>>)))>>)

\* the arrays of at most n elements of S
ArraysOf(S, n) == {Arr(q) : q \in UNION {[1..m -> S] : m \in 0..n}}

NumArr(n) == Arr([i \in 1..n |-> Num(i)])

\* a record with field k set to v, or without it when v is undefined
With(rec, k, v) == IF IsUndef(v) THEN rec ELSE SetProp(rec, k, v)

First == Obj([_id |-> Str("first")])

\* records that differ in their scalars, their object and a split array
ScalarRecords ==
  {With(With(With(First, "num", n), "obj", o), "tags", t) :
     n \in {Undef, Num(0), Num(7)},
     o \in {Undef, EmptyObj, Obj([type1 |-> Str("a")]), Obj([type1 |-> Str("")]), Obj([type1 |-> Str("7")])},
     t \in {Undef, EmptyArr, Arr(<<Str("a"), Str("b")>>), Arr(<<Str("a,b")>>)}}

\* records that differ in the arrays of the primary sheet
ArrayRecords ==
  {With(With(First, "arr", a), "lists", l) :
     a \in {Undef} \cup {NumArr(n) : n \in 0..MaxElems},
     l \in {Undef} \cup ArraysOf({EmptyObj, Obj([code |-> Str("c")]),
                                  Obj([bool |-> Bool(FALSE)])}, MaxElems)}

\* records that differ in the array of the secondary sheet
NestedRecords ==
  {With(First, "list", l) :
     l \in {Undef} \cup
           ArraysOf({EmptyObj,
                     Obj([code |-> Str("n")]),
                     Obj([code |-> Str("n"),
                          list |-> Arr(<<Obj([code |-> Str("i")]), Obj([code |-> Str("j")])>>)]),
                     Obj([list |-> Arr(<<EmptyObj>>)]),
                     Obj([list |-> Arr(<<Obj([code |-> Str("i")])>>)]),
                     Obj([arr |-> EmptyArr]),
                     Obj([arr |-> NumArr(2)])}, MaxElems)}

\* a record with every kind of field
Other ==
  Obj([_id |-> Str("other"),
       num |-> Num(1),
       obj |-> Obj([type1 |-> Str("t")]),
       arr |-> NumArr(2),
       lists |-> Arr(<<Obj([code |-> Str("x")]), Obj([code |-> Str("y")])>>),
       list |-> Arr(<<Obj([code |-> Str("m"),
                           list |-> Arr(<<Obj([code |-> Str("k")])>>)])>>)])

\* the lists of records exported: _.values(data)
RowLists ==
  UNION {{<<r>>, <<Other, r>>, <<r, Other>>} :
           r \in ScalarRecords \cup ArrayRecords \cup NestedRecords}

InitRound ==
  /\ FormatIdle /\ JsonIdle /\ FetchIdle /\ ParserIdle /\ SchemaIdle
  /\ rows \in RowLists
  /\ schemaFormat = <<>>
  /\ sheetDataList = <<>>
  /\ cellDataList = <<>>
  /\ formatDataList = <<>>
  /\ roundResult = <<>>
  /\ rpc = "start"

\* convertSchema2Format(schema, refKeys)
TestFormat == convertSchema2Format(TestSchema, TestRefKeys, "")

RoundSchema ==
  /\ rpc = "start"
  /\ schemaFormat' = TestFormat.result
  /\ rpc' = IF TestFormat.thrown THEN "thrown" ELSE "schema"
  /\ UNCHANGED <<rows, sheetDataList, cellDataList, formatDataList, roundResult,
                 fvars, jvars, gvars, pvars, svars>>

\* splitSheetData(name, refKeys, format, rows)
RoundSplit ==
  /\ rpc = "schema"
  /\ sheetDataList' = splitSheetData(TestName, TestRefKeys, schemaFormat, rows)
  /\ rpc' = "split"
  /\ UNCHANGED <<rows, schemaFormat, cellDataList, formatDataList, roundResult,
                 fvars, jvars, gvars, pvars, svars>>

\* _.assign(cell, { column, cell: column + cell.row })
WithColumn(c) ==
  [cell |-> COLUMN_KEYMAP(c.col) \o ToString(c.row), column |-> COLUMN_KEYMAP(c.col),
   col |-> c.col, row |-> c.row, value |-> c.value]

\* toCells on every sheet, and its cells given their column
RoundCells ==
  /\ rpc = "split"
  /\ cellDataList' =
       [i \in 1..Len(sheetDataList) |->
          [toCells(sheetDataList[i]) EXCEPT
             !.cells = [n \in 1..Len(@) |-> WithColumn(@[n])]]]
  /\ rpc' = "cells"
  /\ UNCHANGED <<rows, schemaFormat, sheetDataList, formatDataList, roundResult,
                 fvars, jvars, gvars, pvars, svars>>

\* _.assign({ name: cellData.name }, _format(cellData.cells)) on every sheet
RoundFormat ==
  /\ rpc = "cells"
  /\ \E r \in {[i \in 1..Len(cellDataList) |-> _format(cellDataList[i].cells)]} :
       /\ formatDataList' =
            [i \in 1..Len(r) |->
               [name |-> cellDataList[i].name, opts |-> r[i].opts, list |-> r[i].list]]
       /\ rpc' = IF \E i \in 1..Len(r) : r[i].thrown THEN "thrown" ELSE "folded"
  /\ UNCHANGED <<rows, schemaFormat, sheetDataList, cellDataList, roundResult,
                 fvars, jvars, gvars, pvars, svars>>

\* toJson(formatDataList, callback)
RoundJson ==
  /\ rpc = "folded"
  /\ \E r \in {toJson(formatDataList)} :
       /\ roundResult' = r.ret
       /\ rpc' = IF r.thrown THEN "thrown" ELSE "done"
  /\ UNCHANGED <<rows, schemaFormat, sheetDataList, cellDataList, formatDataList,
                 fvars, jvars, gvars, pvars, svars>>

NextRound == RoundSchema \/ RoundSplit \/ RoundCells \/ RoundFormat \/ RoundJson

SpecRound == InitRound /\ [][NextRound]_vars

\* the records as a map keyed by their composite ref key
KeyedRows(q) ==
  Obj([k \in {RecordKey(TestRefKeys, q[i]) : i \in 1..Len(q)} |->
         q[CHOOSE i \in 1..Len(q) : RecordKey(TestRefKeys, q[i]) = k]])

RECURSIVE IsFull(_)
IsFull(v) ==
  IF IsObj(v) THEN DOMAIN v.o # {} /\ \A k \in DOMAIN v.o : IsFull(v.o[k])
  ELSE IF IsArr(v)
  THEN /\ v.a # <<>>
       /\ \A i \in 1..Len(v.a) :
            /\ IsFull(v.a[i])
            /\ IsStr(v.a[i]) => IndexOf(v.a[i].s, ",") = 0
  ELSE TRUE

-----------------------------------------------------------------------------
(* Fetching and folding the sheets: getWorksheetDatas, lines 782-875 *)

\* number of sheet names in a request
MaxNames == 2

\* the sheets a request may name: two that fold, one with a malformed option
\* cell and one with a data cell before the first record
FetchLayouts == {LReadme, LSecondary, LBad, LOrder}

NameLists == UNION {[1..n -> FetchLayouts] : n \in 1..MaxNames}

\* the callback of _.transform, lines 833-851
SheetRead(L) == SheetCells(SheetValues(L), 1)

\* the array with every falsy element left in
Uncompacted(q) == q

\* _.compact(results)
RECURSIVE compact(_)
compact(q) ==
  IF q = <<>> THEN <<>>
  ELSE (IF q[1] = Undef THEN <<>> ELSE <<q[1]>>) \o compact(Tail(q))

InitFetch ==
  /\ FormatIdle /\ JsonIdle /\ RoundIdle /\ ParserIdle /\ SchemaIdle
  /\ worksheetNames \in NameLists
  /\ tasks = [i \in 1..Len(worksheetNames) |-> "pending"]
  /\ results = [i \in 1..Len(worksheetNames) |-> Undef]
  /\ errList = <<>>
  /\ gpc = "wait"
  /\ gret = <<>>

\* a sheet that resolves takes the first free place of results, whatever
\* place its name has in the request
FetchResolveInTurn(i) ==
  /\ gpc \in {"wait", "done"}
  /\ tasks[i] = "pending"
  /\ tasks' = [tasks EXCEPT ![i] = "resolved"]
  /\ \E r \in {_format(SheetRead(worksheetNames[i]))} :
       IF r.thrown
       THEN /\ errList' = Append(errList, [name |-> worksheetNames[i].name, error |-> "e"])
            /\ results' = results
       ELSE /\ errList' = errList
            /\ results' =
                 [results EXCEPT
                    ![CHOOSE n \in 1..Len(results) :
                        results[n] = Undef /\ \A m \in 1..(n - 1) : results[m] # Undef]
                      = [name |-> worksheetNames[i].name, opts |-> r.opts, list |-> r.list]]
  /\ UNCHANGED <<worksheetNames, gpc, gret, fvars, jvars, rvars, pvars, svars>>

\* lines 828-867: getList of sheet i resolves and the rest of the async
\* callback runs: the cells are read and folded, and the task resolves with
\* the folded sheet, or with undefined after a push to errList
FetchResolve(i) ==
  /\ gpc \in {"wait", "done"}
  /\ tasks[i] = "pending"
  /\ tasks' = [tasks EXCEPT ![i] = "resolved"]
  /\ \E r \in {_format(SheetRead(worksheetNames[i]))} :
       IF r.thrown
       THEN /\ errList' = Append(errList, [name |-> worksheetNames[i].name, error |-> "e"])
            /\ results' = results
       ELSE /\ errList' = errList
            /\ results' = [results EXCEPT ![i] = [name |-> worksheetNames[i].name,
                                                  opts |-> r.opts, list |-> r.list]]
  /\ UNCHANGED <<worksheetNames, gpc, gret, fvars, jvars, rvars, pvars, svars>>

\* lines 828-832 and 869-872: getList of sheet i rejects; the first
\* rejection rejects Promise.all, and the callback gets the error alone
FetchReject(i) ==
  /\ gpc \in {"wait", "done"}
  /\ tasks[i] = "pending"
  /\ tasks' = [tasks EXCEPT ![i] = "rejected"]
  /\ IF gpc = "wait"
     THEN /\ gpc' = "done"
          /\ gret' = [err |-> "e", result |-> <<>>, errList |-> <<>>]
     ELSE UNCHANGED <<gpc, gret>>
  /\ UNCHANGED <<worksheetNames, results, errList, fvars, jvars, rvars, pvars, svars>>

\* line 874: every task has resolved
FetchReturn ==
  /\ gpc = "wait"
  /\ \A i \in 1..Len(tasks) : tasks[i] = "resolved"
  /\ gpc' = "done"
  /\ gret' = [err |-> "null", result |-> compact(results), errList |-> errList]
  /\ UNCHANGED <<worksheetNames, tasks, results, errList, fvars, jvars, rvars, pvars, svars>>

NextFetch ==
  \/ \E i \in 1..Len(worksheetNames) : FetchResolve(i)
  \/ \E i \in 1..Len(worksheetNames) : FetchReject(i)
  \/ FetchReturn

SpecFetch == InitFetch /\ [][NextFetch]_vars

\* folding the cells of sheet i of the request throws
FoldThrows(i) == _format(SheetRead(worksheetNames[i])).thrown

\* what folding sheet i returns, under the name of the sheet
Folded(i) ==
  [name |-> worksheetNames[i].name,
   opts |-> _format(SheetRead(worksheetNames[i])).opts,
   list |-> _format(SheetRead(worksheetNames[i])).list]

\* the places of the request from the i-th on, in order, whose folding
\* throws (t) or returns (~t)
RECURSIVE Places(_, _)
Places(i, t) ==
  IF i > Len(worksheetNames) THEN <<>>
  ELSE (IF FoldThrows(i) = t THEN <<i>> ELSE <<>>) \o Places(i + 1, t)

\* C9: when no fetch fails, the callback gets no error; the result list is
\* the folded sheets, in the order of the request, of the names whose folding
\* does not throw; errList has one entry, under the name of the sheet, for
\* each requested name whose folding throws, and no other entry; and the
\* lengths of the two lists add up to the number of names requested
C9_PerSheet ==
  (gpc = "done" /\ \A i \in 1..Len(tasks) : tasks[i] # "rejected") =>
    /\ gret.err = "null"
    /\ gret.result = [n \in 1..Len(Places(1, FALSE)) |-> Folded(Places(1, FALSE)[n])]
    /\ Len(gret.errList) = Len(Places(1, TRUE))
    /\ \A L \in FetchLayouts :
         Cardinality({n \in 1..Len(gret.errList) : gret.errList[n].name = L.name})
           = Cardinality({i \in 1..Len(worksheetNames) :
                            FoldThrows(i) /\ worksheetNames[i] = L})
    /\ Len(gret.result) + Len(gret.errList) = Len(worksheetNames)

\* the sheet with the malformed option cell was asked for first, the README
\* sheet second: the first is reported and the second returned
C9_Witness ==
  /\ gpc = "done" /\ gret.err = "null"
  /\ Len(worksheetNames) = 2
  /\ worksheetNames[1] = LBad /\ worksheetNames[2] = LReadme
  /\ Len(gret.result) = 1 /\ gret.result[1].name = "Readme"
  /\ Len(gret.result[1].list) = MaxDataRows
  /\ gret.errList = <<[name |-> "Bad", error |-> "e"]>>
-----------------------------------------------------------------------------
(* Index columns *)

\* the index cells among cs that pin counter k for the cell visited last:
\* cells of an index column with key k on the row of that cell, with no
\* record started after them
PinnedBy(cs, k) ==
  {j \in 1..(Len(cs) - 1) :
     /\ cs[j].row = cs[Len(cs)].row
     /\ cs[j].row >= opts.data_line /\ cs[j].row # opts.attr_line
     /\ cs[j].cell # option_cell
     /\ cs[j].column \in DOMAIN opts.format
     /\ opts.format[cs[j].column].type = "index"
     /\ opts.format[cs[j].column].key = k
     /\ \A m \in (j + 1)..Len(cs) :
          ~(/\ cs[m].column \in DOMAIN opts.format
            /\ opts.format[cs[m].column].type # "index"
            /\ IsRecordStart(opts, opts.format[cs[m].column].key))}

\* the sheet with an index column, with the index 0 on rows 4 and 5 and the
\* index 1 on row 6 of one record
IndexCells ==
  SelectSeq(SheetCells(SheetValues(LIndex), 1),
            LAMBDA c : c.row <= 3 \/ c.cell \in {"A4", "B4", "C4", "D4", "B5", "C5", "D5",
                                                  "B6", "C6", "D6"})

IndexFolded ==
  (fpc = "done" /\ cells = IndexCells) =>
    list = <<Obj([_id |-> Str("first"),
                  list |-> Arr(<<Obj([code |-> Str("c1"),
                                      sub |-> Arr(<<Obj([x |-> Str("x1")]),
                                                    Obj([x |-> Str("x2")])>>)]),
                                 Obj([code |-> Str("c3"),
                                      sub |-> Arr(<<Obj([x |-> Str("x3")])>>)])>>)])>>

\* C11: a data cell under an array whose index column has a cell earlier on
\* the same row of the record is folded into the slot that index cell names:
\* the counter of the array holds that index, the slot is filled, and the
\* array grows no further than that slot, so two rows with the same index
\* share a slot and a row with another index selects the slot of that index;
\* a counter set by an index column is not advanced by a row change
C11_Step ==
  /\ DataCellStep =>
       LET c == cells'[Len(cells')]
           f == opts.format[c.column]
           old == IF RecordStarted THEN EmptyObj ELSE list[Len(list)]
       IN f.type # "index" =>
            \A n \in 1..Len(f.keys) :
              \A j \in PinnedBy(cells', PrefixKey(f.keys, n)) :
                IsArrayKey(f.keys[n]) =>
                  LET k == PrefixKey(f.keys, n)
                      v == parseInt(ToStr(cells'[j].value)).n
                      was == ReadArray(old, k, idx')
                      now == ReadArray(list'[Len(list')], k, idx')
                  IN /\ idx'[k].value = v
                     /\ IsArr(now)
                     /\ ~IsUndef(ArrGet(now, v))
                     /\ Len(now.a) = IF IsArr(was) /\ Len(was.a) > v + 1
                                     THEN Len(was.a) ELSE v + 1
  /\ (CellStep /\ ~RecordStarted) =>
       \A k \in DOMAIN idx :
         (/\ idx[k].type = "format"
          /\ ~(/\ cells'[Len(cells')].column \in DOMAIN opts.format
               /\ opts.format[cells'[Len(cells')].column].type = "index"
               /\ cells'[Len(cells')].row >= opts.data_line)) =>
           (k \in DOMAIN idx' /\ idx'[k] = idx[k])

-----------------------------------------------------------------------------
(* First write wins *)

\* C12 as stated: a data cell whose leaf in the record already holds a value,
\* whatever that value is, leaves the leaf as it was
C12_Step ==
  DataCellStep =>
    LET c == cells'[Len(cells')]
        f == opts.format[c.column]
        was == ReadKeys(list[Len(list)], f.keys, 1, idx')
    IN (f.type # "index" /\ ~RecordStarted /\ list # <<>> /\ ~IsUndef(was)) =>
         ReadKeys(list'[Len(list')], f.keys, 1, idx') = was

C12_AsStated == [][C12_Step]_fvars
-----------------------------------------------------------------------------
(* The parsers on their own: _parser, lines 132-160 *)

\* the texts a cell may hold: spellings of false and of true, digit strings,
\* the empty text and other words
ParserTexts ==
  {"false", "FALSE", "False", "fAlSe", "0", "", "true", "TRUE", "1", "00",
   "07", "no", "falsey", "f", "x", "off"}

\* the arguments: texts, and the values a caller that holds parsed data may
\* pass (booleans, numbers, NaN, undefined)
ParserInputs ==
  {Str(t) : t \in ParserTexts}
    \cup {Bool(TRUE), Bool(FALSE), Num(0), Num(1), Num(2), NaN, Undef}

InitParser ==
  /\ ptype \in ParserNames
  /\ parg \in ParserInputs
  /\ pret = <<>>
  /\ ppc = "call"
  /\ FormatIdle /\ JsonIdle /\ RoundIdle /\ FetchIdle /\ SchemaIdle

\* this._parser[ptype](parg)
ParserCall ==
  /\ ppc = "call"
  /\ pret' = Parser(ptype, parg)
  /\ ppc' = "done"
  /\ UNCHANGED <<ptype, parg, fvars, jvars, rvars, gvars, svars>>

NextParser == ParserCall

SpecParser == InitParser /\ [][NextParser]_vars

BooleanDone == ppc = "done" /\ ptype \in {"boolean", "bool"}

\* the inputs the claim lists: "false" in any letter case, "0", boolean false
ListedFalse ==
  {v \in ParserInputs :
     \/ v = Bool(FALSE)
     \/ v = Str("0")
     \/ IsStr(v) /\ Len(v.s) = 5 /\ toLowerCase(v.s) = "false"}

\* the inputs that are neither text nor boolean and that JavaScript takes for
\* false: the number 0, NaN and undefined
OtherFalsy == {Num(0), NaN, Undef}

\* C13 as stated: boolean/bool returns false for "false" in any letter case,
\* "0" and boolean false, and true for every other input
C13_AsStated == BooleanDone => pret = Bool(parg \notin ListedFalse)

\* C13 amended: boolean/bool returns false for "false" in any letter case,
\* "0", boolean false, and for an input that is neither text nor boolean and is
\* falsy (the number 0, NaN, undefined); it returns true for every other
\* input, the empty text included
C13_Amended == BooleanDone => pret = Bool(parg \notin ListedFalse \cup OtherFalsy)

C13_Witness == BooleanDone /\ parg = Str("FALSE") /\ pret = Bool(FALSE)
-----------------------------------------------------------------------------
(* A secondary sheet of a type that is neither array nor map *)

\* the sheet the forEach is on is secondary and its type is not one that
\* _findOrigin knows
UnknownType == OptStr(sheetData.opts, "type") \notin {"", "origin", "array", "map"}

\* C14 as stated: a record of a sheet whose type is neither array nor map
\* ends the call with an error: nothing is added to the linkage failures and
\* no further record is processed
C14_Fatal ==
  (RecordStep /\ UnknownType) => (jpc' # "run" /\ errors' = errors)

C14_AsStated == [][C14_Fatal]_vars

\* the first `made` segments of the key exist, or are made as empty objects,
\* under record k; the record is otherwise as it was
RECURSIVE WalkedFrom(_, _, _)
WalkedFrom(rec, keys, i) ==
  IF i > Len(keys) THEN rec
  ELSE SetP(rec, keys[i],
            WalkedFrom(OrElse(GetP(rec, keys[i]), EmptyObj), keys, i + 1))

\* nothing on the way is a string, a number or a boolean that is truthy
Walkable(org, keys) ==
  \A j \in 1..(Len(keys) - 1) :
    LET v == GetAt(org, SubSeq(keys, 1, j)) IN ~(Truthy(v) /\ IsPrimitive(v))

\* C14 amended, one record: on a sheet of unknown type with a key of plain
\* segments, a record whose origin record is in the collection is added to
\* errors[name] and none of its fields is merged; the origin record gains at
\* most the empty containers the walk of the key makes; the call goes on
C14_Step ==
  LET o == sheetData.opts
      k == OriginKey(o, NextData)
      dm == GetProp(collectionMap, CurName)
      keys == split(o.key, ".")
  IN
  /\ (RecordStep /\ UnknownType) =>
       errors' = (CurName :> Append(ErrorsOf(errors, CurName), NextData)) @@ errors
  /\ (/\ RecordStep /\ UnknownType /\ OptStr(o, "key") # "" /\ ~OriginMissing
      /\ \A i \in 1..Len(keys) : ~IsArrayKey(keys[i]) /\ keys[i] # "$"
      /\ Walkable(GetProp(dm, k), keys)) =>
       /\ jpc' = "run"
       /\ collectionMap'
            = SetProp(collectionMap, CurName,
                      SetProp(dm, k, WalkedFrom(GetProp(dm, k), keys, 1)))

\* the records of the sheets of unknown type that were visited
RECURSIVE UnknownVisited(_)
UnknownVisited(i) ==
  IF i > Len(sheetDatas) THEN <<>>
  ELSE (IF OptStr(sheetDatas[i].opts, "type") \notin {"", "origin", "array", "map"}
        THEN sheetDatas[i].list ELSE <<>>) \o UnknownVisited(i + 1)

\* C14 amended, the call: the callback is called with the collection map, and
\* its first argument lists every visited record of a sheet of unknown type
C14_Final ==
  (jpc = "done" /\ UnknownVisited(1) # <<>>) =>
    /\ DOMAIN errors # {}
    /\ jret.err = errors
    /\ jret.collectionMap = collectionMap
    /\ \A n \in 1..Len(UnknownVisited(1)) :
         \E name \in DOMAIN jret.err : \E m \in 1..Len(jret.err[name]) :
           jret.err[name][m] = UnknownVisited(1)[n]

C14_PerRecord == [][C14_Step /\ C14_Final']_vars

\* the primary sheet, then two records of the sheet of type object, then the
\* map sheet: the two records are reported, the origin record holds an empty
\* x, and a record of the map sheet was still linked
C14_Witness ==
  /\ jpc = "done" /\ Len(sheetDatas) = 3
  /\ sheetDatas[1].name = "Sheet1" /\ sheetDatas[2].name = "Sheet1.x"
  /\ sheetDatas[3].name = "Sheet1.map"
  /\ Len(sheetDatas[2].list) = 2 /\ Len(sheetDatas[3].list) = 2
  /\ Len(jret.err["Test"]) = 3
  /\ GetAt(collectionMap, <<"Test", "first", "x">>) = EmptyObj
  /\ GetAt(collectionMap, <<"Test", "first", "map", "k1", "v">>) = Num(2)
-----------------------------------------------------------------------------
(* The order of the sheets *)

\* a primary sheet of the collection, visited before the sheet the forEach is
\* on, holds a record with the key that NextData names as its origin
MatchesPrimary ==
  \E i \in 1..(Len(sheetDatas) - 1) :
    /\ IsPrimary(sheetDatas[i].opts)
    /\ CollectionName(sheetDatas[i]) = CurName
    /\ \E r \in 1..Len(sheetDatas[i].list) :
         RecordKey(sheetDatas[i].opts.ref_keys, sheetDatas[i].list[r])
           = OriginKey(sheetData.opts, NextData)

\* what is on the way to the target is an object or an array, or is not
\* there yet, and what is at the target is an object or is not there yet
LinkableMap(org, tp) ==
  /\ \A j \in 0..(Len(tp) - 1) :
       LET v == GetAt(org, SubSeq(tp, 1, j)) IN IsObj(v) \/ IsArr(v) \/ IsUndef(v)
  /\ IsObj(GetAt(org, tp)) \/ IsUndef(GetAt(org, tp))

\* the record NextData has what its sheet's type asks for, whatever the order
\* of the sheets: a key, an __in entry for every array segment of the key, a
\* target of the right kind inside the origin record org and, on a map sheet,
\* a __key
Fits(org) ==
  LET o == sheetData.opts
      keys == split(o.key, ".")
      tp == TargetPath(keys, InTrail(NextData), 1)
  IN /\ OptStr(o, "key") # ""
     /\ Resolvable(keys, InTrail(NextData))
     /\ \/ OptStr(o, "type") = "array" /\ Linkable(org, tp)
        \/ /\ OptStr(o, "type") = "map" /\ LinkableMap(org, tp)
           /\ Truthy(GetProp(NextData, "__key"))

\* the forEach callback is on a record of a sheet of type array or map whose
\* ref key is that of a primary record visited before
MatchedStep ==
  RecordStep /\ OptStr(sheetData.opts, "type") \in {"array", "map"} /\ MatchesPrimary

\* the second half of C15, step by step: a record of a secondary sheet whose
\* origin record is not in the collection is added to errors[name] and
\* changes no record; what is in errors stays there; and a record of a
\* primary sheet is stored as it is in its sheet, so that nothing reported
\* before is merged into it
C15_TooEarly ==
  /\ (RecordStep /\ ~IsPrimary(sheetData.opts) /\ OriginMissing) =>
       /\ errors' = (CurName :> Append(ErrorsOf(errors, CurName), NextData)) @@ errors
       /\ collectionMap' = collectionMap
  /\ \A n \in DOMAIN errors :
       n \in DOMAIN errors' /\ SubSeq(errors'[n], 1, Len(errors[n])) = errors[n]
  /\ (RecordStep /\ IsPrimary(sheetData.opts)) =>
       /\ errors' = errors
       /\ GetAt(collectionMap',
                <<CurName, RecordKey(sheetData.opts.ref_keys, NextData)>>) = NextData

\* C15 as stated: once the primary sheets of the collection have been
\* visited, every record of a secondary sheet whose ref key is that of a
\* primary record is linked (nothing is reported); and the second half
C15_Linked ==
  /\ MatchedStep =>
       (jpc' = "run" /\ errors' = errors)
  /\ C15_TooEarly

C15_Found ==
  /\ MatchedStep =>
       /\ ~OriginMissing
       /\ Fits(GetProp(GetProp(collectionMap, CurName), OriginKey(sheetData.opts, NextData)))
            => (jpc' = "run" /\ errors' = errors)
  /\ C15_TooEarly

-----------------------------------------------------------------------------
(* Sheets of type map *)

\* the forEach callback is on a record of a map sheet whose origin record is
\* in the collection and holds, where the key leads, an object or nothing
MapStep ==
  LET o == sheetData.opts
      keys == split(o.key, ".")
  IN /\ RecordStep /\ OptStr(o, "type") = "map" /\ OptStr(o, "key") # ""
     /\ ~OriginMissing /\ Resolvable(keys, InTrail(NextData))
     /\ LinkableMap(GetProp(GetProp(collectionMap, CurName), OriginKey(o, NextData)),
                    TargetPath(keys, InTrail(NextData), 1))

\* C16: on such a step a record with a __key is linked: the container the key
\* leads to holds under __key a mapping with the fields of the record that
\* are not linkage fields and nothing else, whatever it held there before;
\* the other entries of the container stay, and nothing is reported. A record
\* without __key is added to errors[name] and none of its fields is merged:
\* the container is as it was, or is made empty
C16_Step ==
  LET o == sheetData.opts
      data == NextData
      k == OriginKey(o, data)
      tp == <<CurName, k>> \o TargetPath(split(o.key, "."), InTrail(data), 1)
      old == GetAt(collectionMap, tp)
      new == GetAt(collectionMap', tp)
      __key == GetProp(data, "__key")
  IN
  MapStep =>
    IF Truthy(__key)
    THEN /\ jpc' = "run"
         /\ errors' = errors
         /\ IsObj(new)
         /\ GetProp(new, ToStr(__key)) = StripLinkage(data)
         /\ DOMAIN new.o = {ToStr(__key)} \cup (IF IsObj(old) THEN DOMAIN old.o ELSE {})
         /\ \A j \in DOMAIN new.o \ {ToStr(__key)} : new.o[j] = old.o[j]
    ELSE /\ jpc' = "run"
         /\ errors' = (CurName :> Append(ErrorsOf(errors, CurName), data)) @@ errors
         /\ new = (IF IsObj(old) THEN old ELSE EmptyObj)

C16_MapLink == [][C16_Step]_vars

\* the primary sheet, the map sheet and the second map sheet: the record
\* without __key is reported, and under k1 the mapping of the second sheet
\* has taken the place of that of the first
C16_Witness ==
  /\ jpc = "done" /\ Len(sheetDatas) = 3
  /\ sheetDatas[1].name = "Sheet1" /\ sheetDatas[2].name = "Sheet1.map"
  /\ sheetDatas[3].name = "Sheet2.map"
  /\ Len(sheetDatas[1].list) = 1 /\ Len(sheetDatas[2].list) = 2
  /\ Len(sheetDatas[3].list) = 1
  /\ errors["Test"] = <<sheetDatas[2].list[1]>>
  /\ GetAt(collectionMap, <<"Test", "first", "map">>)
       = Obj([k1 |-> Obj([w |-> Str("9")])])
-----------------------------------------------------------------------------
(* Exporting a schema: convertSchema2Format, then splitSheetData on the    *)
(* columns it returns, as in the test `all`, for the schemas of a bounded  *)
(* family                                                                  *)

\* number of properties of the schema of a record
MaxProps == 2

BooleanSchema == [type |-> "boolean"]
IntegerSchema == [type |-> "integer"]
DateSchema == [type |-> "number", format |-> "date-time"]
\* a type that convertSchema2Format does not know, and an array without items
NullSchema == [type |-> "null"]
BareArraySchema == [type |-> "array"]

LeafSchemas ==
  {StringSchema, BooleanSchema, NumberSchema, IntegerSchema, DateSchema,
   NullSchema, BareArraySchema}

\* an array of objects that hold a text and an array of objects
NestedArraySchema ==
  ArraySchema(ObjectSchema(
    <<Prop("code", StringSchema),
      Prop("sub", ArraySchema(ObjectSchema(<<Prop("x", StringSchema)>>)))>>))

\* the schemas of a property: scalars, arrays of scalars, arrays of arrays,
\* objects, arrays of objects, nested arrays of objects with and without an
\* object above them, and objects with allOf and oneOf
PropSchemas ==
  LeafSchemas
    \cup {ArraySchema(l) :
            l \in {StringSchema, NumberSchema, NullSchema, BareArraySchema}}
    \cup {ArraySchema(ArraySchema(StringSchema)),
          ArraySchema(ArraySchema(ObjectSchema(<<Prop("code", StringSchema)>>)))}
    \cup {ObjectSchema(<<Prop("code", l)>>) :
            l \in {StringSchema, ArraySchema(NumberSchema), NullSchema}}
    \cup {ArraySchema(ObjectSchema(<<Prop("code", l)>>)) :
            l \in {StringSchema, ArraySchema(NumberSchema), NullSchema}}
    \cup {NestedArraySchema,
          ObjectSchema(<<Prop("list", NestedArraySchema), Prop("code", StringSchema)>>)}
    \cup {[type |-> "object",
           properties |-> <<Prop("d", NumberSchema), Prop("code", StringSchema)>>,
           allOf |-> <<ObjectSchema(<<Prop("code", StringSchema),
                                      Prop("e", BooleanSchema)>>)>>],
          [type |-> "object",
           oneOf |-> <<ObjectSchema(<<Prop("code", StringSchema)>>),
                       ObjectSchema(<<Prop("d", NumberSchema),
                                      Prop("code", NumberSchema)>>)>>],
          [type |-> "object",
           properties |-> <<Prop("code", StringSchema)>>,
           allOf |-> <<BareArraySchema>>]}

PropNames == <<"_id", "a", "b", "c">>

\* the schemas exported: a property schema on its own, or an object of one
\* to MaxProps properties named _id, a, b, ...
Schemas ==
  PropSchemas \cup
    {ObjectSchema([i \in 1..Len(q) |-> Prop(PropNames[i], q[i])]) :
       q \in UNION {[1..m -> PropSchemas] : m \in 1..MaxProps}}

RefKeyLists == {<<>>, <<"_id">>, <<"a", "_id">>, <<"a.code", "_id">>}

InitSchema ==
  /\ sschema \in Schemas
  /\ srefs \in RefKeyLists
  /\ sformat = <<>>
  /\ ssheets = <<>>
  /\ spc = "start"
  /\ FormatIdle /\ JsonIdle /\ RoundIdle /\ FetchIdle /\ ParserIdle

\* convertSchema2Format(sschema, srefs)
SchemaConvert ==
  /\ spc = "start"
  /\ \E r \in {convertSchema2Format(sschema, srefs, "")} :
       /\ sformat' = r.result
       /\ spc' = IF r.thrown THEN "thrown" ELSE "format"
  /\ UNCHANGED <<sschema, srefs, ssheets, fvars, jvars, rvars, gvars, pvars>>

\* splitSheetData(name, srefs, sformat, []) on the columns returned
SchemaSplit ==
  /\ spc = "format"
  /\ ssheets' = splitSheetData(TestName, srefs, sformat, <<>>)
  /\ spc' = "split"
  /\ UNCHANGED <<sschema, srefs, sformat, fvars, jvars, rvars, gvars, pvars>>

NextSchema == SchemaConvert \/ SchemaSplit

SpecSchema == InitSchema /\ [][NextSchema]_vars

\* convertSchema2Format has returned
Converted == spc \in {"format", "split"}

\* the columns in the order they are discovered: what the call returns when
\* there is no ref key to sort on
Discovered == convertSchema2Format(sschema, <<>>, "").result

\* column s is that of a ref key, and the place of its ref key in the list
IsRefEntry(s) == \E i \in 1..Len(srefs) : srefs[i] = StripType(s)
RefPlace(s) == CHOOSE i \in 1..Len(srefs) :
                 srefs[i] = StripType(s) /\ \A j \in 1..(i - 1) : srefs[j] # StripType(s)

Count(q, s) == Cardinality({i \in 1..Len(q) : q[i] = s})

\* C17: the list returned is a permutation of the columns discovered; the
\* columns of the ref keys come first, in the order of the ref keys, and the
\* other columns follow in the order they were discovered
C17_RefKeysFirst ==
  Converted =>
    \E d \in {Discovered} :
      /\ Len(sformat) = Len(d)
      /\ \A i \in 1..Len(d) : Count(sformat, d[i]) = Count(d, d[i])
      /\ \A i, j \in 1..Len(sformat) :
           (i < j /\ IsRefEntry(sformat[j])) =>
             (IsRefEntry(sformat[i]) /\ RefPlace(sformat[i]) <= RefPlace(sformat[j]))
      /\ SelectSeq(sformat, LAMBDA s : ~IsRefEntry(s))
           = SelectSeq(d, LAMBDA s : ~IsRefEntry(s))

\* two ref keys, discovered in the other order and after another column
C17_Witness ==
  /\ Converted /\ srefs = <<"a.code", "_id">>
  /\ sschema = ObjectSchema(<<Prop("_id", StringSchema),
                              Prop("a", ObjectSchema(<<Prop("list", NestedArraySchema),
                                                       Prop("code", StringSchema)>>))>>)
  /\ sformat = <<"a.code:string", "_id:string", "a.#list.code:string",
                 "a.#list.#sub.x:string">>

\* the marker of a property with schema sc.  As the claim has it (stated): `#`
\* on an array of objects, `$` on any other array unless the property is
\* inside an array.  As amended: `#` on an array of objects, `$` on an array of
\* anything else but arrays, nothing on an array of arrays
Marker(sc, inside, stated) ==
  IF sc.type = "array" /\ "items" \in DOMAIN sc
  THEN IF sc.items.type = "object" THEN "#"
       ELSE IF stated THEN (IF inside THEN "" ELSE "$")
       ELSE IF sc.items.type # "array" THEN "$" ELSE ""
  ELSE ""

\* the paths of the leaves of a schema when the segments are marked so; an
\* array that is not a property (the schema itself) gives the segment `#`
\* or `$` alone, and an array passes its path on to its items
RECURSIVE MarkedPaths(_, _, _, _)
MarkedPaths(sc, path, inside, stated) ==
  CASE sc.type \in {"string", "boolean", "number", "integer"} -> {path}
    [] sc.type = "object" ->
         UNION {MarkedPaths(p.sc,
                            (IF path = "" THEN "" ELSE path \o ".")
                              \o Marker(p.sc, inside, stated) \o p.key,
                            inside, stated) :
                  p \in {Field(sc, "properties", <<>>)[i] :
                           i \in 1..Len(Field(sc, "properties", <<>>))}}
           \cup UNION {MarkedPaths(b, path, inside, stated) :
                         b \in {(Field(sc, "allOf", <<>>) \o Field(sc, "oneOf", <<>>))[i] :
                                  i \in 1..Len(Field(sc, "allOf", <<>>)
                                                 \o Field(sc, "oneOf", <<>>))}}
    [] sc.type = "array" /\ "items" \in DOMAIN sc ->
         MarkedPaths(sc.items,
                     IF path # "" THEN path
                     ELSE IF sc.items.type = "object" THEN "#" ELSE "$",
                     TRUE, stated)
    [] OTHER -> {}

\* the paths of the columns returned
ColumnPaths == {StripType(sformat[i]) : i \in 1..Len(sformat)}

\* a segment has at most one marker, and has it in front
OneMarker(seg) == \A i \in 2..Len(seg) : Ch(seg, i) \notin {"#", "$"}

\* C18 as stated: an array of objects is marked `#`, any other array `$`
\* unless it is inside an array, and no segment has two markers
C18_AsStated ==
  Converted =>
    /\ ColumnPaths = MarkedPaths(sschema, "", FALSE, TRUE)
    /\ \A p \in ColumnPaths : \A i \in 1..Len(split(p, ".")) : OneMarker(split(p, ".")[i])

\* C18 amended: a property that is an array of objects is marked `#`; a
\* property that is an array of anything else but arrays is marked `$`,
\* inside an array of objects as well as outside; a property that is an
\* array of arrays is not marked, nor are the arrays inside it; and no
\* segment has two markers
C18_Amended ==
  Converted =>
    /\ ColumnPaths = MarkedPaths(sschema, "", FALSE, FALSE)
    /\ \A p \in ColumnPaths : \A i \in 1..Len(split(p, ".")) : OneMarker(split(p, ".")[i])

\* an array of arrays of texts, and an array of numbers inside an array of
\* objects
C18_Witness ==
  /\ Converted /\ srefs = <<>>
  /\ sschema = ObjectSchema(
       <<Prop("_id", ArraySchema(ArraySchema(StringSchema))),
         Prop("a", ArraySchema(ObjectSchema(<<Prop("code", ArraySchema(NumberSchema))>>)))>>)
  /\ sformat = <<"_id:string", "#a.$code:number">>

\* a node the call visits is an array without items or has a type that is
\* none of string, boolean, number, integer, object, array: the nodes visited
\* are the schema, the properties and the allOf and oneOf branches of an
\* object, and the items of an array
RECURSIVE HasInvalidNode(_)
HasInvalidNode(sc) ==
  CASE sc.type \in {"string", "boolean", "number", "integer"} -> FALSE
    [] sc.type = "object" ->
         \/ \E i \in 1..Len(Field(sc, "properties", <<>>)) :
              HasInvalidNode(sc.properties[i].sc)
         \/ \E i \in 1..Len(Field(sc, "allOf", <<>>)) : HasInvalidNode(sc.allOf[i])
         \/ \E i \in 1..Len(Field(sc, "oneOf", <<>>)) : HasInvalidNode(sc.oneOf[i])
    [] sc.type = "array" -> "items" \notin DOMAIN sc \/ HasInvalidNode(sc.items)
    [] OTHER -> TRUE

\* C19: the call throws `invalid schema type`, and returns nothing, exactly
\* when a node it visits is an array without items or has an unsupported
\* type; otherwise it returns a list of columns
C19_InvalidSchema ==
  spc # "start" =>
    /\ (spc = "thrown") = HasInvalidNode(sschema)
    /\ spc = "thrown" => sformat = <<>> /\ ssheets = <<>>
    /\ Converted => \A i \in 1..Len(sformat) : TypeSuffix(sformat[i]) # ""

\* the unsupported node is the last one visited: the columns found before it
\* are lost
C19_Witness ==
  /\ spc = "thrown"
  /\ sschema = ObjectSchema(<<Prop("_id", StringSchema),
                              Prop("a", ArraySchema(ObjectSchema(<<Prop("code", NullSchema)>>)))>>)
  /\ sformat = <<>>

\* the number of `#` in column e
Hashes(e) == Cardinality({i \in 1..Len(e) : Ch(e, i) = "#"})

\* <prefix>#<array>: column e up to the end of its first array segment, ""
\* when e has no array segment with a name and something below it
ArrayHead(e) ==
  LET h == IndexOf(e, "#")
      d == IndexOf(SubSeq(e, h + 1, Len(e)), ".")
  IN IF h = 0 \/ d <= 1 THEN "" ELSE SubSeq(e, 1, h + d - 1)

\* the array segments that have a further `#` array below them
NestedHeads ==
  {ArrayHead(sformat[i]) : i \in {j \in 1..Len(sformat) : Hashes(sformat[j]) >= 2}} \ {""}

\* <prefix><array>
HeadKey(h) == SubSeq(h, 1, IndexOf(h, "#") - 1) \o SubSeq(h, IndexOf(h, "#") + 1, Len(h))

\* the columns under head h, without <prefix>#<array>. in front
RECURSIVE Under(_, _)
Under(q, h) ==
  IF q = <<>> THEN <<>>
  ELSE (IF ArrayHead(Head(q)) = h
        THEN <<SubSeq(Head(q), Len(h) + 2, Len(Head(q)))>> ELSE <<>>) \o Under(Tail(q), h)

\* C20: the first sheet returned is the primary sheet, with the columns that
\* are under no array segment with a further `#` below it, in their order;
\* there is one more sheet for each such segment <prefix>#<array>, named
\* <name>.<prefix><array>, of type array and key <prefix><array>, whose
\* columns are __ref_0..__ref_(n-1), one for each ref key, and then the
\* columns under the segment without the prefix <prefix>#<array>. ; so that
\* every column is on exactly one sheet
C20_Split ==
  spc = "split" =>
    /\ Len(ssheets) = 1 + Cardinality(NestedHeads)
    /\ ssheets[1].name = TestName
    /\ "type" \notin DOMAIN ssheets[1].opts
    /\ ssheets[1].format = SelectSeq(sformat, LAMBDA e : ArrayHead(e) \notin NestedHeads)
    /\ \A h \in NestedHeads :
         \E k \in 2..Len(ssheets) :
           /\ ssheets[k].name = TestName \o "." \o HeadKey(h)
           /\ ssheets[k].opts.type = "array"
           /\ ssheets[k].opts.key = HeadKey(h)
           /\ ssheets[k].opts.ref_keys = srefs
           /\ ssheets[k].format
                = [i \in 1..Len(srefs) |-> "__ref_" \o ToString(i - 1)] \o Under(sformat, h)
    /\ \A i \in 1..Len(sformat) :
         Cardinality({k \in 1..Len(ssheets) :
                        \E n \in 1..Len(ssheets[k].format) :
                          IF k = 1 THEN sformat[i] = ssheets[k].format[n]
                          ELSE /\ n > Len(srefs)
                               /\ \E h \in NestedHeads :
                                    /\ ssheets[k].opts.key = HeadKey(h)
                                    /\ sformat[i] = h \o "." \o ssheets[k].format[n]}) = 1

\* an array of objects with an array of objects below it, inside an object
C20_Witness ==
  /\ spc = "split" /\ srefs = <<"_id">>
  /\ sformat = <<"_id:string", "a.#list.code:string", "a.#list.#sub.x:string",
                 "a.code:string">>
  /\ Len(ssheets) = 2
  /\ ssheets[1].format = <<"_id:string", "a.code:string">>
  /\ ssheets[2].name = "Test1.a.list"
  /\ ssheets[2].format = <<"__ref_0", "code:string", "#sub.x:string">>
-----------------------------------------------------------------------------
(* The extent toCells returns *)

\* the largest number of a non-empty set of numbers
Largest(S) == CHOOSE m \in S : \A x \in S : x <= m

\* the rows and the columns of the cells of sheet i
CellRows(i) == {cellDataList[i].cells[n].row : n \in 1..Len(cellDataList[i].cells)}
CellCols(i) == {cellDataList[i].cells[n].col : n \in 1..Len(cellDataList[i].cells)}

\* the records addCell is called on for sheet i
Emitted(i) == CellRecords(sheetDataList[i].opts, sheetDataList[i].datas, 1)

\* C21 as stated: maxRow and maxCol are the largest row and the largest
\* column among the cells emitted
C21_AsStated ==
  rpc = "cells" =>
    \A i \in 1..Len(cellDataList) :
      /\ cellDataList[i].maxRow = Largest(CellRows(i))
      /\ cellDataList[i].maxCol = Largest(CellCols(i))

\* C21: maxCol is the number of format entries; maxRow is the row after the
\* last row reserved: data_line when addCell is called on no record, else a
\* row below every cell emitted, at least one row per record below
\* data_line, and the row next to the last cell when the last record
\* emitted a cell
C21_Amended ==
  rpc = "cells" =>
    \A i \in 1..Len(cellDataList) :
      LET recs == Emitted(i)
          format == sheetDataList[i].format
      IN /\ cellDataList[i].maxCol = Len(format)
         /\ \A r \in CellRows(i) : r < cellDataList[i].maxRow
         /\ cellDataList[i].maxRow >= data_line + Len(recs)
         /\ recs = <<>> => cellDataList[i].maxRow = data_line
         /\ (recs # <<>> /\ addCell(format, recs[Len(recs)], data_line) # {})
              => cellDataList[i].maxRow = Largest(CellRows(i)) + 1

\* a sheet with no record to emit next to a sheet whose record takes two rows
C21_Witness ==
  /\ rpc = "cells"
  /\ \E i \in 1..Len(cellDataList) :
       Emitted(i) = <<>> /\ cellDataList[i].maxRow = data_line
  /\ \E i \in 1..Len(cellDataList) :
       Len(Emitted(i)) = 1 /\ cellDataList[i].maxRow = data_line + 2
-----------------------------------------------------------------------------
(* The rows of the records toCells emits *)

\* the data cells of sheet i: place and value
DataCells(i) ==
  {[col |-> cellDataList[i].cells[n].col, row |-> cellDataList[i].cells[n].row,
    value |-> cellDataList[i].cells[n].value] :
     n \in {m \in 1..Len(cellDataList[i].cells) : cellDataList[i].cells[m].row >= data_line}}

\* the rows that hold a cell of the first column, which every record of the
\* exported sheets has a value for: _id or __ref_0
FirstColumnRows(i) == {c.row : c \in {d \in DataCells(i) : d.col = 1}}

\* the start row of record k: the k-th of those rows
StartRow(i, k) ==
  CHOOSE r \in FirstColumnRows(i) :
    Cardinality({x \in FirstColumnRows(i) : x < r}) = k - 1

\* what the claim has record data emit from start row s: element j of the
\* array of a `#` entry on row s + j, the value of any other entry on row s
ElementCells(data, attr, col, s) ==
  LET arr == _get(data, ArrayKey(attr)) IN
  UNION {ValueCells(attr, col, s + j, _get(data, ElementKey(SearchKey(attr), j))) :
           j \in 0..((IF IsArr(arr) THEN Len(arr.a) ELSE 0) - 1)}

ExpectedCells(format, data, s) ==
  UNION {IF IndexOf(format[col], "#") > 0
         THEN ElementCells(data, format[col], col, s)
         ELSE ValueCells(format[col], col, s, _get(data, SearchKey(format[col]))) :
           col \in 1..Len(format)}

\* C22: the records of a sheet start on increasing rows, the first on
\* data_line; a record emits element j of a `#` entry on its start row + j
\* and at most one cell per other entry on its start row; a record starts
\* below every row of the records before it; no two data cells share a place
C22_RowRanges ==
  rpc = "cells" =>
    \A i \in 1..Len(cellDataList) :
      LET recs == Emitted(i)
          format == sheetDataList[i].format
          cs == cellDataList[i].cells
      IN /\ Cardinality(FirstColumnRows(i)) = Len(recs)
         /\ recs # <<>> => StartRow(i, 1) = data_line
         /\ DataCells(i) =
              UNION {ExpectedCells(format, recs[k], StartRow(i, k)) : k \in 1..Len(recs)}
         /\ \A k \in 1..(Len(recs) - 1) :
              \A c \in ExpectedCells(format, recs[k], StartRow(i, k)) :
                c.row < StartRow(i, k + 1)
         /\ \A n, m \in 1..Len(cs) :
              (cs[n].row = cs[m].row /\ cs[n].col = cs[m].col) => n = m

\* two records of a sheet, the first on two rows, the second below them
C22_Witness ==
  /\ rpc = "cells"
  /\ \E i \in 1..Len(cellDataList) :
       /\ Len(Emitted(i)) = 2
       /\ StartRow(i, 2) = data_line + 2
       /\ \E c \in DataCells(i) : c.row = data_line + 1 /\ c.col > 1
       /\ \E c \in DataCells(i) : c.row = data_line + 3
-----------------------------------------------------------------------------
(* The start of a record *)

\* the last step folded a data cell that starts a record
RecordStartStep ==
  /\ DataCellStep
  /\ opts.format[cells'[Len(cells')].column].type # "index"
  /\ IsRecordStart(opts, opts.format[cells'[Len(cells')].column].key)

\* the counters an index column has set
FormatCounters(ix) == {k \in DOMAIN ix : ix[k].type = "format"}

\* C23 as stated: a record-start cell appends a fresh record and the
\* counters set by index columns keep their values
C23_AsStatedStep ==
  RecordStartStep =>
    /\ Len(list') = Len(list) + 1
    /\ SubSeq(list', 1, Len(list)) = list
    /\ \A k \in FormatCounters(idx) : k \in DOMAIN idx' /\ idx'[k] = idx[k]

C23_AsStated == [][C23_AsStatedStep]_fvars

\* C23, amended: a record-start cell appends a record that holds nothing
\* but the value of that cell, the earlier records being kept, and discards
\* every counter, those set by index columns too: the counters left are the
\* ones the walk of the cell's own key makes, at 0
C23_AmendedStep ==
  RecordStartStep =>
    LET c == cells'[Len(cells')]
        f == opts.format[c.column]
    IN /\ Len(list') = Len(list) + 1
       /\ SubSeq(list', 1, Len(list)) = list
       /\ IsObj(list'[Len(list')])
       /\ DOMAIN list'[Len(list')].o = {StripMark(f.keys[1])}
       /\ ReadKeys(list'[Len(list')], f.keys, 1, idx')
            = CoerceCell(f.type, IsSplitKey(f.keys[Len(f.keys)]), c.value)
       /\ FormatCounters(idx') = {}
       /\ \A k \in DOMAIN idx' :
            /\ \E n \in 1..Len(f.keys) : IsArrayKey(f.keys[n]) /\ k = PrefixKey(f.keys, n)
            /\ idx'[k].value = 0

C23_Amended == [][C23_AmendedStep]_fvars

\* the second record of the sheet with an index column has just started:
\* the counter the index cell of row 4 had set is gone
C23_Witness ==
  /\ fpc = "run"
  /\ sheet = SheetCells(SheetValues(LIndex), 1)
  /\ cells # <<>> /\ LastCell.cell = "A5"
  /\ \E n \in 1..Len(cells) : cells[n].cell = "B4"
  /\ Len(list) = 2
  /\ idx = <<>>
-----------------------------------------------------------------------------
(* The counters an index cell touches *)

\* an index column next to an array whose name continues the name of the
\* array the index column pins
LIndexNear ==
  [name |-> "IndexNear", opt |-> OptEmpty,
   cols |-> <<Col("_id", "", <<"first">>),
              Col("#lists.code", "", <<"c1", "c2", "c3">>),
              Col("#list:index", "", <<"0", "1", "1">>),
              Col("#list.code", "", <<"d1", "d2", "d3">>),
              Col("#list.#sub.x", "", <<"x1", "x2", "x3">>)>>]

IndexLayouts == {LIndex, LIndexNear}

InitIndex ==
  /\ \E L \in IndexLayouts : sheet = SheetCells(SheetValues(L), 1)
  /\ pos = 0
  /\ cells = <<>>
  /\ beforeRow = FormatStart.beforeRow
  /\ idx = FormatStart.idx
  /\ list = FormatStart.list
  /\ opts = FormatStart.opts
  /\ fpc = "run"
  /\ JsonIdle /\ RoundIdle /\ FetchIdle /\ ParserIdle /\ SchemaIdle

SpecIndex == InitIndex /\ [][NextFormat]_vars

\* the last step folded a data cell of an index column
IndexStep ==
  /\ DataCellStep
  /\ opts.format[cells'[Len(cells')].column].type = "index"

\* counter c as the change of row at the head of the step leaves it
AfterRowChange(c) ==
  IF idx[c].type # "format" THEN [idx[c] EXCEPT !.value = @ + RowInc] ELSE idx[c]

\* c is k followed by '.' and further segments
DottedContinuation(k, c) ==
  Len(c) > Len(k) + 1 /\ SubSeq(c, 1, Len(k) + 1) = k \o "."

\* what an index step does, the counters it zeroes being the dotted
\* continuations of its key or the keys the regular expression matches
IndexEffect(dotted) ==
  LET c == cells'[Len(cells')]
      Zeroed(key, o) == IF dotted THEN DottedContinuation(key, o)
                        ELSE RegExpPrefixTest(key, o)
      k == opts.format[c.column].key
      v == parseInt(ToStr(c.value)).n
  IN /\ list' = list
     /\ IF k \notin DOMAIN idx \/ AfterRowChange(k).value # v
        THEN /\ DOMAIN idx' = DOMAIN idx \cup {k}
             /\ idx'[k] = [type |-> "format", value |-> v]
             /\ \A o \in DOMAIN idx \ {k} :
                  idx'[o] = IF Zeroed(k, o) THEN [AfterRowChange(o) EXCEPT !.value = 0]
                            ELSE AfterRowChange(o)
        ELSE /\ DOMAIN idx' = DOMAIN idx
             /\ \A o \in DOMAIN idx : idx'[o] = AfterRowChange(o)

\* C24 as stated: an index cell whose integer differs from its counter sets
\* the counter and zeroes exactly the counters whose key is its key followed
\* by '.' and further segments; an equal integer changes no counter; no
\* record is written
C24_AsStated == [][IndexStep => IndexEffect(TRUE)]_fvars

\* C24, amended: the counters zeroed are those whose key is longer than the
\* index column's key and starts with it, whatever character follows (a '.'
\* of the index column's key standing for any character)
C24_Amended == [][IndexStep => IndexEffect(FALSE)]_fvars

\* the index cell of row 5 has changed the index from 0 to 1 and zeroed the
\* counter of #lists, which the change of row had brought to 1
C24_Witness ==
  /\ fpc = "run"
  /\ sheet = SheetCells(SheetValues(LIndexNear), 1)
  /\ cells # <<>> /\ LastCell.cell = "C5"
  /\ \E n \in 1..Len(cells) : cells[n].cell = "B5"
  /\ \E n \in 1..Len(cells) : cells[n].cell = "C4"
  /\ \A n \in 1..Len(cells) : cells[n].cell # "A5"
  /\ idx["#list"] = [type |-> "format", value |-> 1]
  /\ idx["#lists"] = [type |-> "normal", value |-> 0]
-----------------------------------------------------------------------------
(* The index of an array segment of opts.key *)

\* s has the form #name:digits
DigitsSuffix(s) ==
  LET c == LastIndexOf(s, ":") IN
  StartsWith(s, "#") /\ c >= 3 /\ c < Len(s) /\ IsDigits(SubSeq(s, c + 1, Len(s)))

\* an array at v or anywhere inside it holds something under a name that is
\* not an index
RECURSIVE NamedIndex(_)
NamedIndex(v) ==
  IF IsObj(v) THEN \E k \in DOMAIN v.o : NamedIndex(v.o[k])
  ELSE IF IsArr(v)
  THEN \/ "p" \in DOMAIN v
       \/ \E i \in 1..Len(v.a) : NamedIndex(v.a[i])
  ELSE FALSE

\* the forEach callback is on a record of a secondary sheet whose key has an
\* array segment and whose origin record is in the collection
ArrayWalkStep ==
  /\ RecordStep /\ ~IsPrimary(sheetData.opts) /\ ~OriginMissing
  /\ OptStr(sheetData.opts, "key") # ""
  /\ \E i \in 1..Len(split(sheetData.opts.key, ".")) :
       IsArrayKey(split(sheetData.opts.key, ".")[i])

Reported == errors' = (CurName :> Append(ErrorsOf(errors, CurName), NextData)) @@ errors

\* C25 as stated: a record whose __in trail has, for an array segment of the
\* key, no segment or a segment that is not of the form #name:digits is
\* reported in errors, and nothing is written under a name that is not an
\* index
C25_AsStatedStep ==
  ArrayWalkStep =>
    LET keys == split(sheetData.opts.key, ".")
        inq == InTrail(NextData)
    IN (\E i \in 1..Len(keys) :
          IsArrayKey(keys[i]) /\ (i > Len(inq) \/ ~DigitsSuffix(inq[i]))) =>
         /\ jpc' = "run"
         /\ Reported
         /\ NamedIndex(collectionMap') => NamedIndex(collectionMap)

C25_AsStated == [][C25_AsStatedStep]_vars

\* C25, amended: a record whose __in trail has no segment, or an empty one,
\* for an array segment of the key is reported in errors; a record whose
\* trail has a segment for every array segment is linked when the origin
\* record has room for it, under the digits of a segment of the form
\* #name:digits and under the whole segment otherwise
C25_AmendedStep ==
  ArrayWalkStep =>
    LET o == sheetData.opts
        keys == split(o.key, ".")
        inq == InTrail(NextData)
        org == GetProp(GetProp(collectionMap, CurName), OriginKey(o, NextData))
        tp == <<CurName, OriginKey(o, NextData)>> \o TargetPath(keys, inq, 1)
    IN /\ (\E i \in 1..Len(keys) :
             IsArrayKey(keys[i]) /\ (i > Len(inq) \/ inq[i] = "")) =>
            (jpc' = "thrown" \/ (jpc' = "run" /\ Reported))
       /\ (Resolvable(keys, inq) /\ Fits(org) /\ OptStr(o, "type") = "array") =>
            /\ jpc' = "run"
            /\ errors' = errors
            /\ \A i \in 1..Len(keys) :
                 IsArrayKey(keys[i]) =>
                   tp[2 * i + 2] = IF DigitsSuffix(inq[i])
                                   THEN SubSeq(inq[i], LastIndexOf(inq[i], ":") + 1, Len(inq[i]))
                                   ELSE inq[i]
            /\ IsArr(GetAt(collectionMap', tp))
            /\ GetAt(collectionMap', tp).a[Len(GetAt(collectionMap', tp).a)]
                 = StripLinkage(NextData)

C25_Amended == [][C25_AmendedStep]_vars

\* the record with __in 'list' has been linked under list['list'], and the
\* record without __in has been reported
C25_Witness ==
  /\ "Test" \in DOMAIN collectionMap.o
  /\ "first" \in DOMAIN collectionMap.o["Test"].o
  /\ GetAt(collectionMap, <<"Test", "first", "list", "list", "sub", "0">>)
       = Obj([code |-> Str("n3")])
  /\ GetAt(collectionMap, <<"Test", "first", "list", "0", "sub", "0">>)
       = Obj([code |-> Str("n1")])
  /\ \E n \in 1..Len(ErrorsOf(errors, "Test")) :
       errors["Test"][n] = Obj([__ref_0 |-> Str("first"), code |-> Str("n2")])
-----------------------------------------------------------------------------
(* One callback, whatever the order the fetches complete in *)

\* a pending fetch settles: api.getList returns a promise that the request
\* resolves or rejects
FetchSettles ==
  \E i \in 1..Len(tasks) : \E s \in {"resolved", "rejected"} :
    tasks[i] = "pending" /\ tasks' = [tasks EXCEPT ![i] = s]

\* the await of line 827 goes on once every fetch has resolved
AwaitReturns ==
  gpc = "wait" /\ (\A i \in 1..Len(tasks) : tasks[i] = "resolved") /\ gpc' = "done"

SpecFetchFair ==
  InitFetch /\ [][NextFetch]_vars /\ WF_tasks(FetchSettles) /\ WF_gpc(AwaitReturns)

\* what the callback is called with: after a rejection the error alone,
\* otherwise the folded sheets in the order of the request, each under the
\* name it was asked for by, those whose folding throws left out
CalledBack ==
  gpc = "done" =>
    IF \E i \in 1..Len(tasks) : tasks[i] = "rejected"
    THEN gret.err = "e" /\ gret.result = <<>>
    ELSE /\ gret.err = "null"
         /\ Len(gret.result) = Len(Places(1, FALSE))
         /\ \A n \in 1..Len(gret.result) :
              /\ gret.result[n].name = worksheetNames[Places(1, FALSE)[n]].name
              /\ gret.result[n] = Folded(Places(1, FALSE)[n])

\* the callback is not called before the fetches have all resolved or one
\* has rejected, and is not called again
CalledOnce ==
  /\ gpc = "wait" =>
       /\ gret = <<>>
       /\ gpc' = "done" =>
            \/ \E i \in 1..Len(tasks) : tasks'[i] = "rejected"
            \/ \A i \in 1..Len(tasks) : tasks'[i] = "resolved"
  /\ gpc = "done" => (gpc' = "done" /\ gret' = gret)

\* C26: whatever order the fetches complete in, the callback is called, and
\* once: with the folded sheets in the order of worksheetNames, each under
\* the name of its sheet, or with the error of a fetch and no results
C26_OneCallback == [][CalledOnce]_vars /\ []CalledBack /\ <>(gpc = "done")

\* two sheets that fold, the second fetched before the first: the first
\* place of the request is still empty when the second is filled
C26_SecondFirst ==
  /\ gpc = "wait" /\ Len(worksheetNames) = 2
  /\ worksheetNames[1] = LReadme /\ worksheetNames[2] = LSecondary
  /\ tasks = <<"pending", "resolved">>
  /\ results[1] = Undef /\ results[2] # Undef

\* two sheets that fold have been returned in the order of the request
C26_Witness ==
  /\ gpc = "done" /\ gret.err = "null"
  /\ Len(worksheetNames) = 2
  /\ worksheetNames[1] = LReadme /\ worksheetNames[2] = LSecondary
  /\ Len(gret.result) = 2
  /\ gret.result[1].name = "Readme" /\ gret.result[2].name = "Sheet1.list"
-----------------------------------------------------------------------------
(* What a failed link leaves behind *)

\* the forEach callback was on a record of a secondary sheet that
\* _findOrigin returned nothing for
FailedLinkStep ==
  RecordStep /\ ~IsPrimary(sheetData.opts) /\ jpc' = "run" /\ Reported

\* C27 as stated: a failed link leaves the collection map as it was
C27_AsStated == [][FailedLinkStep => collectionMap' = collectionMap]_vars

\* v is made of containers alone: objects and arrays that hold nothing but
\* such objects and arrays
RECURSIVE Hollow(_)
Hollow(v) ==
  IF IsObj(v) THEN \A k \in DOMAIN v.o : Hollow(v.o[k])
  ELSE IF IsArr(v)
  THEN /\ \A i \in 1..Len(v.a) : Hollow(v.a[i])
       /\ "p" \in DOMAIN v => \A k \in DOMAIN v.p : Hollow(v.p[k])
  ELSE FALSE

\* new is old with containers added where old had nothing
RECURSIVE Grown(_, _)
Grown(old, new) ==
  \/ old = new
  \/ IsUndef(old) /\ Hollow(new)
  \/ /\ IsObj(old) /\ IsObj(new)
     /\ DOMAIN old.o \subseteq DOMAIN new.o
     /\ \A k \in DOMAIN new.o : Grown(GetProp(old, k), new.o[k])
  \/ /\ IsArr(old) /\ IsArr(new) /\ "p" \notin DOMAIN old /\ "p" \notin DOMAIN new
     /\ Len(old.a) <= Len(new.a)
     /\ \A i \in 1..Len(new.a) : Grown(ArrGet(old, i - 1), new.a[i])

\* C27, amended: a failed link merges no field of the record, and it leaves
\* the collection map as it was when the origin record or opts.key is
\* missing; a failure found later leaves in the origin record the empty
\* containers the walk of opts.key has made on its way: when the walk came
\* to its end (the failure is a target that is not an array, a missing __key
\* or an unsupported type) the place the key leads to is there afterwards
C27_AmendedStep ==
  FailedLinkStep =>
    LET o == sheetData.opts
        keys == split(o.key, ".")
        inq == InTrail(NextData)
        tp == <<CurName, OriginKey(o, NextData)>> \o TargetPath(keys, inq, 1)
    IN /\ Grown(collectionMap, collectionMap')
       /\ (OriginMissing \/ OptStr(o, "key") = "") => collectionMap' = collectionMap
       /\ (/\ ~OriginMissing /\ OptStr(o, "key") # ""
           /\ Resolvable(keys, inq)
           /\ \A i \in 1..Len(keys) : keys[i] # "$") =>
            ~IsUndef(GetAt(collectionMap', tp))

C27_Amended == [][C27_AmendedStep]_vars

\* the record of the map sheet that has no __key has been reported, and the
\* record first, which had no field map, holds an empty one
C27_Witness ==
  /\ jpc = "run" /\ Len(sheetDatas) = 2
  /\ sheetDatas[1].name = "Sheet1" /\ Len(sheetDatas[1].list) = 1
  /\ sheetDatas[2].name = "Sheet1.map" /\ Len(sheetDatas[2].list) = 1
  /\ "map" \notin DOMAIN sheetDatas[1].list[1].o
  /\ ErrorsOf(errors, "Test") = sheetDatas[2].list
  /\ GetAt(collectionMap, <<"Test", "first">>)
       = SetProp(sheetDatas[1].list[1], "map", EmptyObj)
-----------------------------------------------------------------------------
(* The order of the secondary sheets *)

\* toJson has returned for a primary sheet followed by two secondary sheets
\* of its collection
PrimaryThenTwo ==
  /\ jpc = "done" /\ Len(sheetDatas) = 3
  /\ IsPrimary(sheetDatas[1].opts)
  /\ ~IsPrimary(sheetDatas[2].opts) /\ ~IsPrimary(sheetDatas[3].opts)
  /\ CollectionName(sheetDatas[2]) = CollectionName(sheetDatas[1])
  /\ CollectionName(sheetDatas[3]) = CollectionName(sheetDatas[1])

\* toJson on the same sheets with the two secondary sheets the other way
\* round gives the same collection map
SameSwapped ==
  LET swapped == toJson(<<sheetDatas[1], sheetDatas[3], sheetDatas[2]>>) IN
  ~swapped.thrown /\ swapped.ret.collectionMap = jret.collectionMap

\* C28 as stated: with the primary sheet first, the collection map does not
\* depend on the order of the secondary sheets
C28_AsStated == PrimaryThenTwo => SameSwapped

\* the field of the origin record the key of a secondary sheet starts from
KeyField(sd) ==
  IF OptStr(sd.opts, "key") = "" THEN "" ELSE StripMark(split(sd.opts.key, ".")[1])

\* C28, amended: with the primary sheet first, the collection map does not
\* depend on the order of two secondary sheets whose keys start from
\* different fields of the origin record
C28_Amended ==
  (PrimaryThenTwo /\ KeyField(sheetDatas[2]) # KeyField(sheetDatas[3])) => SameSwapped

\* the array sheet and then the map sheet have been linked into the record
\* first
C28_Witness ==
  /\ PrimaryThenTwo
  /\ sheetDatas[2].name = "Sheet1.list" /\ sheetDatas[3].name = "Sheet1.map"
  /\ Len(sheetDatas[1].list) = 1
  /\ Len(sheetDatas[2].list) = 3 /\ Len(sheetDatas[3].list) = 2
  /\ Len(GetAt(collectionMap, <<"Test", "first", "list">>).a) = 2
  /\ GetAt(collectionMap, <<"Test", "first", "map", "k1", "v">>) = Num(2)

\* the sheet with key #list.sub has been linked before the sheet with key
\* list: its record is under an element of its own, before the elements of
\* the sheet with key list
C28_NestedFirst ==
  /\ PrimaryThenTwo
  /\ sheetDatas[2].name = "Sheet1.sub" /\ sheetDatas[3].name = "Sheet1.list"
  /\ Len(sheetDatas[1].list) = 1
  /\ Len(sheetDatas[2].list) = 1 /\ Len(sheetDatas[3].list) = 1
  /\ GetAt(collectionMap, <<"Test", "first", "list", "0">>)
       = Obj([sub |-> Arr(<<Obj([code |-> Str("n1")])>>)])
  /\ GetAt(collectionMap, <<"Test", "first", "list", "1", "code">>) = Str("c1")
-----------------------------------------------------------------------------
(* The composite key of a primary record *)

\* the values of the ref keys of record data
RefTuple(refKeys, data) == [i \in 1..Len(refKeys) |-> GetProp(data, refKeys[i])]

\* the records of the sheet under way that the forEach has visited
Visited == sheetDatas[Len(sheetDatas)].list

\* the forEach callback is on a record of a primary sheet
PrimaryStep == RecordStep /\ IsPrimary(sheetData.opts)

\* C29 as stated: a primary record is stored under a key that differs from
\* the key of every earlier record of its sheet whose ref-key values differ
\* from its own, so that record stays as it was stored
C29_AsStatedStep ==
  PrimaryStep =>
    \A n \in 1..Len(Visited) :
      RefTuple(sheetData.opts.ref_keys, Visited[n])
          # RefTuple(sheetData.opts.ref_keys, NextData) =>
        /\ RecordKey(sheetData.opts.ref_keys, Visited[n])
             # RecordKey(sheetData.opts.ref_keys, NextData)
        /\ GetAt(collectionMap', <<CurName, RecordKey(sheetData.opts.ref_keys, Visited[n])>>)
             = GetAt(collectionMap, <<CurName, RecordKey(sheetData.opts.ref_keys, Visited[n])>>)

C29_AsStated == [][C29_AsStatedStep]_vars

\* no ref-key value of the record has a '.' in it
DotFree(refKeys, data) ==
  \A i \in 1..Len(refKeys) : IndexOf(ToStr(GetProp(data, refKeys[i])), ".") = 0

\* C29 with the ref-key values free of '.': the record is stored under a key
\* of its own; whatever the values, the record is stored under its key and
\* the entries under the other keys stay
C29_AmendedStep ==
  PrimaryStep =>
    LET rk == sheetData.opts.ref_keys
        before == GetProp(collectionMap, CurName)
        after == GetProp(collectionMap', CurName)
    IN /\ \A n \in 1..Len(Visited) :
            (/\ RefTuple(rk, Visited[n]) # RefTuple(rk, NextData)
             /\ DotFree(rk, Visited[n]) /\ DotFree(rk, NextData)) =>
              RecordKey(rk, Visited[n]) # RecordKey(rk, NextData)
       /\ GetProp(after, RecordKey(rk, NextData)) = NextData
       /\ DOMAIN after.o = DOMAIN before.o \cup {RecordKey(rk, NextData)}
       /\ \A k \in DOMAIN before.o \ {RecordKey(rk, NextData)} : after.o[k] = before.o[k]

C29_Amended == [][C29_AmendedStep]_vars

\* the records (a.b, c) and (a, b.c) have been stored: the collection holds
\* one record, the second
C29_Witness ==
  /\ jpc = "run" /\ sheetDatas # <<>>
  /\ sheetDatas[Len(sheetDatas)].name = "Other" /\ Len(Visited) = 2
  /\ DOMAIN GetProp(collectionMap, "Other").o = {"a.b.c"}
  /\ GetAt(collectionMap, <<"Other", "a.b.c">>) = Visited[2]
  /\ Visited[1] # Visited[2]
-----------------------------------------------------------------------------
(* When _format raises *)

\* the forEach callback has been called on a cell
VisitStep == fpc = "run" /\ cells' # cells

\* the cell is the option cell and does not hold JSON
BadOptionCell(c) == c.cell = option_cell /\ ~JSONparse(ToStr(c.value)).ok

\* the cell is a data cell of an attributed column that is not an index
\* column, it starts no record and no record has been started before it
OrphanDataCell(c) ==
  /\ c.cell # option_cell
  /\ c.row # opts.attr_line /\ c.row >= opts.data_line
  /\ c.column \in DOMAIN opts.format
  /\ opts.format[c.column].type # "index"
  /\ ~IsRecordStart(opts, opts.format[c.column].key)
  /\ list = <<>>

\* C30 as stated: _format raises on a malformed option cell and on no other
\* cell
C30_AsStated ==
  [][VisitStep => (fpc' = "thrown" <=> BadOptionCell(cells'[Len(cells')]))]_fvars

\* C30 with the second cause: _format raises on a malformed option cell and
\* on a data cell that comes before any record has been started, and on no
\* other cell
C30_Amended ==
  [][VisitStep => (fpc' = "thrown" <=> \/ BadOptionCell(cells'[Len(cells')])
                                       \/ OrphanDataCell(cells'[Len(cells')]))]_fvars

\* the sheet whose ref-key column is not the first: _format has raised on
\* the data cell A4, there being no option cell and no record
C30_Witness ==
  /\ fpc = "thrown"
  /\ sheet = SheetCells(SheetValues(LOrder), 1)
  /\ LastCell.cell = "A4"
  /\ \A n \in 1..Len(cells) : cells[n].cell # option_cell
  /\ list = <<>>

====
